---------------------------- MODULE Spec2Model ----------------------------
(***************************************************************************)
(* Tab Organizer & Project Time Tracker: the background service worker's   *)
(* time accounting (src/background.js), the ledger store it writes         *)
(* (src/utils/storage.js) and the popup's pause toggle                     *)
(* (src/popup/popup.js).                                                   *)
(*                                                                         *)
(* Every handler is an asynchronous task: one action dispatches it (the    *)
(* synchronous part up to its first await) and one action per await point  *)
(* resumes it (the awaited host or store call takes effect and the code    *)
(* runs on to the next await).  Spec lets tasks interleave at their await  *)
(* points and lets the clock advance while they are suspended; SpecSerial  *)
(* runs one handler at a time, to completion, at one instant.              *)
(*                                                                         *)
(* Time is in milliseconds, as Date.now() gives it.  The ledger holds      *)
(* seconds in the code (elapsed ms / 1000, a float); here it holds the     *)
(* same amounts in milliseconds so that half seconds stay integers.        *)
(***************************************************************************)
EXTENDS Integers, Sequences, FiniteSets, TLC

\* ------------------------------------------------------------ bounds

\* Clock ticks the model explores.
MaxTicks == 3
\* Midnights the model explores (day keys 0..MaxDay).
MaxDay == 1
\* Clock ticks of the checkpoint scenario (SpecCheckpoint).
MaxCheckpointTicks == 6
\* Asynchronous tasks in flight at once.
MaxTasks == 3
\* Tab activations counted (the stored counter is unbounded in the code).
MaxSwitches == 1
\* Clock ticks of the overlap scenario (SpecOverlap).
MaxOverlapTicks == 3
\* Handlers in flight at once in the overlap scenario.
MaxOverlap == 2
\* Tab activations of the counter scenario (SpecCounter).
MaxCounterSwitches == 2
\* Characters of a text given to the pattern matcher.
MaxTextLen == 3
\* Characters of a pattern given to the pattern matcher.
MaxPatternLen == 2
\* Rules in the list given to the resolver.
MaxRules == 2
\* grouping commands sent by the popup and the options page
MaxCommands == 3
\* tabs closed and groups removed by the user
MaxHostChanges == 1
\* grouping commands sent while the event listeners run
MaxRequests == 1
\* the ledger's day keys and today's, in the prune
MaxPruneDay == 3
\* keepDays of the prune
MaxKeepDays == 2
\* half-second ticks while the ledger store can fail
MaxStoreTicks == 4
\* failures of the ledger store
MaxFailures == 1
\* half-second ticks of the race scenario (SpecRace)
MaxRaceTicks == 3
\* tab activations of the race scenario
MaxRaceSwitches == 2
\* rules in the stored rule list at install or start-up
MaxStored == 2

\* --------------------------------------------------------- constants

\* (Date.now() - activeTabStartTime) / 1000: milliseconds per second.
MsPerSecond == 1000
\* One clock tick: half a second.
TickMs == MsPerSecond \div 2
\* if (elapsed > 1): the threshold of one second, in milliseconds.
ThresholdMs == 1 * MsPerSecond
\* let activeTabStartTime = null.  Date.now() is never 0, and 0 is as falsy
\* as null in "activeProjectName && activeTabStartTime".
NoTime == 0
\* let activeProjectName = null.
Null == "null"
\* activeProjectName = "Uncategorized".
Uncategorized == "Uncategorized"
\* chrome.windows.WINDOW_ID_NONE.
WINDOW_ID_NONE == "none"
\* pruneOldData(90): the days of ledger the daily prune keeps.
KeepDays == 90
\* The hours of a day, between the local calendar of setDate and the UTC
\* date of toISOString.
HoursPerDay == 24

\* Names a ledger row can hold: two project rules and the sentinel.
Names == {"A", "B", Uncategorized}
\* The keys of a ledger row: a null name is stored under the key "null".
Keys == Names \cup {Null}
Days == 0..MaxDay
TaskIds == 1..MaxTasks

\* The tabs an event can name: a page matching rule A, a page matching rule
\* B, a page no rule matches, a tab without url, a chrome:// tab whose url
\* a pattern of rule A matches, and a tab closed before chrome.tabs.get runs
\* (the call rejects).
Tabs == {"tA", "tB", "tNone", "tNoUrl", "tInternal", "tClosed"}

\* chrome.tabs.get(tabId) rejects.
TabsGetThrows(tab) == tab = "tClosed"
\* !tab.url || tab.url.startsWith("chrome://")
NoUrlOrInternal(tab) == tab \in {"tNoUrl", "tInternal"}
\* matchTabToProject(tab.url, tab.title, projects): the rule's name, or Null.
matchTabToProject(tab) ==
    CASE tab \in {"tA", "tA2", "tA3", "tInternal"} -> "A"
      [] tab = "tB" -> "B"
      [] OTHER -> Null

\* The tabs of the browser in the order chrome.tabs.query({}) lists them:
\* two pages of rule A, one of rule B, a page no rule matches, a tab without
\* url and a chrome:// tab in one window, and a third page of rule A in
\* another window.
AllTabs == <<"tA", "tNoUrl", "tB", "tInternal", "tA2", "tNone", "tA3">>
HostTabs == {AllTabs[k] : k \in DOMAIN AllTabs}
\* tab.windowId
WindowOf(tab) == IF tab = "tA3" THEN "w2" ELSE "w1"
\* tab.groupId === -1 (chrome.tabGroups.TAB_GROUP_ID_NONE), and the
\* undefined of groupIdMap.get for a key the map does not hold.
NoGroup == 0
\* The title of a group nobody has labelled.
NoTitle == ""
\* An organizeTab without its first return.
OrganizeTabNeverReturnsAtOnce(tab) == FALSE

\* if (!url || url.startsWith("chrome://") ||
\*     url.startsWith("chrome-extension://")) return;  and  if (tab.url)
OrganizeTabReturnsAtOnce(tab) == tab \in {"tNoUrl", "tInternal"}

\* ------------------------------------------- strings and the resolver

\* A string is the sequence of its characters; the en dash and the em dash
\* are the characters "ndash" and "mdash".
SeqsUpTo(S, n) == UNION {[1..k -> S] : k \in 0..n}

\* The "i" flag of the regular expressions: letters compare by lower case.
Lower(c) ==
    CASE c = "A" -> "a"
      [] c = "X" -> "x"
      [] c = "G" -> "g"
      [] c = "D" -> "d"
      [] c = "S" -> "s"
      [] c = "F" -> "f"
      [] OTHER -> c

LowerAll(t) == [i \in 1..Len(t) |-> Lower(t[i])]

\* The regular expression of a pattern, tried at the start of t: every
\* character but "*" stands for itself, "*" became ".*"; the expression
\* does not have to reach the end of t.
RECURSIVE MatchHere(_, _)
MatchHere(pattern, t) ==
    IF pattern = <<>> THEN TRUE
    ELSE IF Head(pattern) = "*"
         THEN \E k \in 0..Len(t) :
                 MatchHere(Tail(pattern), SubSeq(t, k + 1, Len(t)))
         ELSE /\ t # <<>>
              /\ Lower(Head(pattern)) = Lower(Head(t))
              /\ MatchHere(Tail(pattern), Tail(t))

\* The regular expression with "^" and "$" around it: the whole of t.
RECURSIVE MatchWhole(_, _)
MatchWhole(pattern, t) ==
    IF pattern = <<>> THEN t = <<>>
    ELSE IF Head(pattern) = "*"
         THEN \E k \in 0..Len(t) :
                 MatchWhole(Tail(pattern), SubSeq(t, k + 1, Len(t)))
         ELSE /\ t # <<>>
              /\ Lower(Head(pattern)) = Lower(Head(t))
              /\ MatchWhole(Tail(pattern), Tail(t))

\* A matcher anchored at both ends.
textMatchesPatternAnchored(text, pattern) == MatchWhole(pattern, text)

\* textMatchesPattern: new RegExp(escaped, "i").test(text), a search for
\* the expression anywhere in text.
textMatchesPattern(text, pattern) ==
    \E k \in 0..Len(text) : MatchHere(pattern, SubSeq(text, k + 1, Len(text)))

Google == <<"G", "o", "o", "g", "l", "e">>
Drive == <<"D", "r", "i", "v", "e">>
Docs == <<"D", "o", "c", "s">>
Sheets == <<"S", "h", "e", "e", "t", "s">>
Slides == <<"S", "l", "i", "d", "e", "s">>
Forms == <<"F", "o", "r", "m", "s">>

\* " - Google Docs" and the like: a dash between spaces, Google, a space
\* and the application.
Suffix(dash, app) == <<" ", dash, " ">> \o Google \o <<" ">> \o app

\* const suffixes = [ ... ], in the order of the source.
suffixes ==
    << Suffix("-", Drive), Suffix("-", Docs), Suffix("-", Sheets),
       Suffix("-", Slides), Suffix("-", Forms),
       Suffix("ndash", Drive), Suffix("ndash", Docs),
       Suffix("mdash", Drive), Suffix("mdash", Docs) >>

\* / - Google Drive$/i tested on t: t ends with the suffix, ignoring case.
EndsWith(t, suffix) ==
    /\ Len(t) >= Len(suffix)
    /\ \A i \in 1..Len(suffix) :
          Lower(t[Len(t) - Len(suffix) + i]) = Lower(suffix[i])

\* t without its last n characters.
DropLast(t, n) == SubSeq(t, 1, Len(t) - n)

\* primaryName.replace(suffix, "")
Replaced(t, suffix) ==
    IF EndsWith(t, suffix) THEN DropLast(t, Len(suffix)) ELSE t

\* String.prototype.trim, for the one white-space character of the model.
RECURSIVE Trim(_)
Trim(t) ==
    IF t = <<>> THEN t
    ELSE IF Head(t) = " " THEN Trim(Tail(t))
    ELSE IF t[Len(t)] = " " THEN Trim(DropLast(t, 1))
    ELSE t

\* for (const suffix of suffixes) primaryName = primaryName.replace(...),
\* from the k-th suffix on.
RECURSIVE ReplacedFrom(_, _)
ReplacedFrom(t, k) ==
    IF k > Len(suffixes) THEN t
    ELSE ReplacedFrom(Replaced(t, suffixes[k]), k + 1)

\* The loop with a break after the first suffix that matched.
RECURSIVE ReplacedOnceFrom(_, _)
ReplacedOnceFrom(t, k) ==
    IF k > Len(suffixes) THEN t
    ELSE IF EndsWith(t, suffixes[k]) THEN Replaced(t, suffixes[k])
    ELSE ReplacedOnceFrom(t, k + 1)

\* A normalizer that strips one suffix at most.
extractPrimaryNameOnce(title) ==
    IF title = <<>> THEN <<>> ELSE Trim(ReplacedOnceFrom(title, 1))

\* extractPrimaryName(title)
extractPrimaryName(title) ==
    IF title = <<>> THEN <<>> ELSE Trim(ReplacedFrom(title, 1))

\* for (const pattern of project.patterns): the position of the first
\* pattern from the k-th on that the matcher finds in text, 0 if none.
RECURSIVE FirstPatternMatching(_, _, _)
FirstPatternMatching(patterns, text, k) ==
    IF k > Len(patterns) THEN 0
    ELSE IF textMatchesPattern(text, patterns[k]) THEN k
    ELSE FirstPatternMatching(patterns, text, k + 1)

\* for (const pattern of project.patterns)
\*   if (textMatchesPattern(text, pattern)) return project
AnyPatternMatches(project, text) ==
    FirstPatternMatching(project.patterns, text, 1) # 0

\* A pass that goes by the position of the matching pattern before the
\* position of the rule.
FirstMatchingByPattern(projects, text, i) ==
    LET pos(j) == FirstPatternMatching(projects[j].patterns, text, 1)
        hits == {j \in i..Len(projects) : pos(j) # 0}
    IN IF hits = {} THEN 0
       ELSE CHOOSE j \in hits :
               \A h \in hits : pos(j) < pos(h) \/ (pos(j) = pos(h) /\ j <= h)

\* for (const project of projects) { ... }: the index of the first project
\* from the i-th on with a matching pattern, 0 if there is none.
RECURSIVE FirstMatching(_, _, _)
FirstMatching(projects, text, i) ==
    IF i > Len(projects) THEN 0
    ELSE IF AnyPatternMatches(projects[i], text) THEN i
    ELSE FirstMatching(projects, text, i + 1)

\* A resolver that tries the url before the title.
MatchTabToProjectUrlFirst(url, title, projects) ==
    LET primaryName == extractPrimaryName(title)
        pass1 == IF primaryName # <<>>
                 THEN FirstMatching(projects, primaryName, 1) ELSE 0
        pass2 == IF title # <<>> /\ title # primaryName
                 THEN FirstMatching(projects, title, 1) ELSE 0
        pass3 == FirstMatching(projects, url, 1)
    IN IF pass3 # 0 THEN pass3 ELSE IF pass1 # 0 THEN pass1 ELSE pass2

\* A resolver that falls back to the first rule.
MatchTabToProjectOrFirst(url, title, projects) ==
    LET pass3 == FirstMatching(projects, url, 1)
    IN IF pass3 # 0 THEN pass3 ELSE IF projects # <<>> THEN 1 ELSE 0

\* matchTabToProject(url, title, projects) of storage.js on strings: the
\* index of the project returned, 0 for null.
MatchTabToProject(url, title, projects) ==
    LET primaryName == extractPrimaryName(title)
        pass1 == IF primaryName # <<>>
                 THEN FirstMatching(projects, primaryName, 1) ELSE 0
        pass2 == IF title # <<>> /\ title # primaryName
                 THEN FirstMatching(projects, title, 1) ELSE 0
        pass3 == FirstMatching(projects, url, 1)
    IN IF pass1 # 0 THEN pass1 ELSE IF pass2 # 0 THEN pass2 ELSE pass3

\* The inputs of the calls explored.
Texts == SeqsUpTo({"a", "A", "b"}, MaxTextLen)
Patterns == SeqsUpTo({"a", "A", "b", "*"}, MaxPatternLen)

\* Titles: a name, up to two suffixes (one of them in lower case), and
\* perhaps a trailing space.
TitleSuffixes ==
    {<<>>, LowerAll(Suffix("-", Docs))}
        \cup {suffixes[k] : k \in DOMAIN suffixes}
Titles ==
    {base \o s1 \o s2 \o tail :
        base \in {<<>>, <<"X">>, <<" ", "X">>},
        s1 \in TitleSuffixes, s2 \in TitleSuffixes,
        tail \in {<<>>, <<" ">>}}

\* What the resolver is given: titles with and without a name and a
\* suffix, urls, and rule lists whose rules have up to two patterns.
ResolverTitles ==
    {<<>>, <<"a">>, <<"b">>, <<"a">> \o Suffix("-", Docs), Suffix("-", Docs)}
ResolverUrls == {<<"a">>, <<"b">>, <<"c">>}
ResolverPatterns == {<<"a">>, <<"b">>, <<"o">>, <<"*">>}
PatternLists ==
    {<<>>} \cup {<<p>> : p \in ResolverPatterns}
           \cup {<<p, q>> : p \in ResolverPatterns, q \in ResolverPatterns}
RuleLists == SeqsUpTo({[patterns |-> ps] : ps \in PatternLists}, MaxRules)

VARIABLES
    activeProjectName,   \* background.js:15
    activeTabStartTime,  \* background.js:16
    isUserIdle,          \* background.js:17
    timeData,            \* chrome.storage.local "timeData": day -> name -> ms
    trackingPaused,      \* chrome.storage.local "trackingPaused"
    tabSwitchCount,      \* chrome.storage.local "tabSwitchCount"
    now,                 \* Date.now()
    today,               \* todayKey(): the wall-clock date, as a day index
    windowFocused,       \* the host: some browser window has the focus
    activations,         \* tab-activated events delivered so far
    tasks,               \* the asynchronous tasks in flight, by task id
    span,                \* history of the open interval (see NewSpan)
    done,                \* the handler that completed in the last step
    history,             \* what a specification records of the past
    call,                \* a call of a pure function: arguments and result
    groupIdMap,          \* background.js:20
    chrome,              \* the host: the tabs closed, each tab's group
    syncStore            \* chrome.storage.sync: "projects", if it is set

vars == <<activeProjectName, activeTabStartTime, isUserIdle, timeData,
          trackingPaused, tabSwitchCount, now, today, windowFocused,
          activations, tasks, span, done, history, call, groupIdMap, chrome,
          syncStore>>

\* ------------------------------------------------------------ ledger

EmptyTD == <<>>

\* timeData[day][name] || 0
Get(td, day, name) == IF day \in DOMAIN td THEN td[day][name] ELSE 0

\* The ledger total of a name over all days.
RECURSIVE SumDays(_, _, _)
SumDays(td, name, days) ==
    IF days = {} THEN 0
    ELSE LET d == CHOOSE x \in days : TRUE
         IN Get(td, d, name) + SumDays(td, name, days \ {d})
Total(td, name) == SumDays(td, name, Days)

\* addTime lines 72-74 with a wrong key: the amount goes to another name.
AddedToWrongName(td, day, name, ms) ==
    [d \in (DOMAIN td) \cup {day} |->
        IF d = day
        THEN [n \in Keys |-> Get(td, d, n) + (IF n # name THEN ms ELSE 0)]
        ELSE td[d]]

\* addTime lines 72-74: if (!timeData[day]) timeData[day] = {};
\* timeData[day][projectName] = (timeData[day][projectName] || 0) + seconds
Added(td, day, name, ms) ==
    [d \in (DOMAIN td) \cup {day} |->
        IF d = day
        THEN [n \in Keys |-> Get(td, d, n) + (IF n = name THEN ms ELSE 0)]
        ELSE td[d]]

\* ------------------------------------------------------------- rules

\* background.js 210-242.  A pattern list is only ever assigned whole, so
\* one value stands for the built-in list of lines 214-241.
DEFAULT_PRODUCTIVITY_PROJECT ==
    [id |-> "default-productivity", name |-> "Productivity",
     color |-> "cyan", patterns |-> "built-in"]

\* DEFAULT_PROJECTS of storage.js: what getProjects returns while the store
\* holds no "projects" key.
DEFAULT_PROJECTS ==
    <<[id |-> "default-uncategorized", name |-> Uncategorized,
       color |-> "grey", patterns |-> "none"]>>

\* The rule list the table matchTabToProject(tab) stands for.
TableRules ==
    <<[id |-> "a", name |-> "A", color |-> "blue", patterns |-> "of A"],
      [id |-> "b", name |-> "B", color |-> "red", patterns |-> "of B"]>>

\* chrome.storage.sync.get({ projects: fallback }).projects; a store with
\* no key set is the empty function.
StoredProjects(store, fallback) ==
    IF "projects" \in DOMAIN store THEN store.projects ELSE fallback

\* getProjects()
getProjects == StoredProjects(syncStore, DEFAULT_PROJECTS)

\* ---------------------------------------------------------- the host

\* No tab is closed, no tab is in a group and no group was ever made.
FreshChrome ==
    [closed |-> {}, groupId |-> [t \in HostTabs |-> NoGroup],
     title |-> <<>>, lastGroupId |-> 0]

\* ------------------------------------------------------------- tasks

Snapshot ==
    [project |-> activeProjectName, start |-> activeTabStartTime,
     timeData |-> timeData, paused |-> trackingPaused, idle |-> isUserIdle,
     startDay |-> history.startDay, groupIdMap |-> groupIdMap,
     chrome |-> chrome, syncStore |-> syncStore]

NoSnapshot ==
    [project |-> Null, start |-> NoTime, timeData |-> EmptyTD,
     paused |-> FALSE, idle |-> FALSE, startDay |-> 0, groupIdMap |-> <<>>,
     chrome |-> FreshChrome, syncStore |-> <<>>]

\* A free task slot.
Free == [kind |-> "free", pc |-> "free"]

\* The locals of a task that has just been created.
NewTask ==
    [kind |-> "free", pc |-> "free", tab |-> "tNoUrl", name |-> Null,
     seconds |-> 0, day |-> 0, td |-> EmptyTD, pausedMs |-> 0,
     nowPaused |-> FALSE, count |-> 0, pre |-> NoSnapshot,
     tabs |-> <<>>, groupId |-> NoGroup, stale |-> NoGroup, map |-> <<>>,
     keepDays |-> 0, projects |-> <<>>]

\* Nothing completed in the last step.  Of a grouping command: tabs, the
\* tabs its loop had not reached; groupId, the group the last organizeTab
\* call put its tab in; stale, the group id whose lookup failed in that
\* call; map, groupIdMap when that call began.
NoDone ==
    [op |-> "none", kind |-> "free", tab |-> "tNoUrl", early |-> FALSE,
     added |-> 0, pausedMs |-> 0, pre |-> NoSnapshot,
     tabs |-> <<>>, groupId |-> NoGroup, stale |-> NoGroup, map |-> <<>>,
     keepDays |-> 0]

InFlight == {i \in TaskIds : tasks[i].pc # "free"}
FreeIds == TaskIds \ InFlight
FirstFree == CHOOSE i \in FreeIds : \A j \in FreeIds : i <= j

\* Listeners that forget the session group map at each of their steps and
\* put the first page of rule A in a group of their own.
GroupCallInListeners ==
    /\ groupIdMap' = <<>>
    /\ chrome' = [chrome EXCEPT !.groupId["tA"] = chrome.lastGroupId + 1,
                                !.lastGroupId = chrome.lastGroupId]
    /\ UNCHANGED syncStore

\* What the time tracking, the ledger and counter stores and the pause
\* toggle do to the groups and to the rules: nothing.  No line of
\* startTrackingTab, flushActiveTime, the event listeners (background.js
\* 74-170) or the stores names groupIdMap, chrome.tabs.group,
\* chrome.tabs.ungroup, chrome.tabGroups or storage.sync.set.
NoGroupCall == UNCHANGED <<groupIdMap, chrome, syncStore>>

\* History of the open interval: when beginTracking opened it, the ledger
\* total of its project then, whether a flush since dropped a span of at
\* most one second, and the milliseconds of the span since
\* activeTabStartTime that passed with the paused flag set.
NewSpan(project, td) ==
    [openedAt |-> now, totalAtOpen |-> Total(td, project),
     dropped |-> FALSE, pausedMs |-> 0]
NoSpan ==
    [openedAt |-> NoTime, totalAtOpen |-> 0, dropped |-> FALSE, pausedMs |-> 0]

\* Nothing recorded.  startDay: the day on which activeTabStartTime was last
\* assigned.  credited: per day and name, the amounts of the addTime calls
\* completed since the ledger was last cleared or pruned.  counted: the
\* increments completed since the counter was last cleared.  reset: whether
\* a resetTimeData command was never sent, is pending, or is done.
\* commands: the grouping commands sent; hostChanges: the changes the user
\* made to tabs and groups; disturbed: the user made one since the last
\* organizeAllTabs command was sent; organized: each tab's group at the end
\* of the last organizeAllTabs pass, if that pass was not disturbed and
\* nothing but organizeAllTabs ran since; before: the same for the pass
\* before it.
NoHistory ==
    [startDay |-> 0, credited |-> EmptyTD, counted |-> 0, reset |-> "never",
     commands |-> 0, hostChanges |-> 0, disturbed |-> FALSE,
     organized |-> <<>>, before |-> <<>>,
     failures |-> 0, failed |-> [project |-> Null, start |-> NoTime],
     activated |-> <<>>]

\* No call of a pure function is explored.
NoCall ==
    [fn |-> "none", returned |-> FALSE, text |-> <<>>, pattern |-> <<>>,
     url |-> <<>>, title |-> <<>>, projects |-> <<>>, matches |-> FALSE,
     primaryName |-> <<>>, project |-> 0]

\* The service worker has started: its own state, the clock and the flags of
\* chrome.storage.local; the ledger, the date, the host's tabs and the
\* stored rules are what the specification starts it on.
Started ==
    /\ activeProjectName = Null
    /\ activeTabStartTime = NoTime
    /\ isUserIdle = FALSE
    /\ trackingPaused = FALSE
    /\ tabSwitchCount = 0
    /\ now = MsPerSecond
    /\ windowFocused = TRUE
    /\ activations = 0
    /\ tasks = [i \in TaskIds |-> Free]
    /\ span = NoSpan
    /\ done = NoDone
    /\ history = NoHistory
    /\ groupIdMap = <<>>

\* The service worker has started with the rule list of the table stored.
Init ==
    /\ Started
    /\ call = NoCall
    /\ timeData = EmptyTD
    /\ today = 0
    /\ chrome = FreshChrome
    /\ syncStore = [projects |-> TableRules]

\* ------------------------------------------------------ flushActiveTime

\* const elapsed = (Date.now() - activeTabStartTime) / 1000, in ms.
Elapsed == now - activeTabStartTime

\* The guard with the comparison off by one: elapsed >= 1.
ShouldAddFromOneSecond ==
    /\ activeProjectName # Null
    /\ activeTabStartTime # NoTime
    /\ Elapsed >= ThresholdMs

\* The guard without the test of the project.
ShouldAddWithoutProject ==
    /\ activeTabStartTime # NoTime
    /\ Elapsed > ThresholdMs

\* if (activeProjectName && activeTabStartTime) { ... if (elapsed > 1)
ShouldAdd ==
    /\ activeProjectName # Null
    /\ activeTabStartTime # NoTime
    /\ Elapsed > ThresholdMs

\* A flush that forgets the checkpoint: the start time is left as it was.
StartKept == activeTabStartTime

\* activeTabStartTime = Date.now(), the last line of flushActiveTime.
StartAfterFlush == now

\* A stop that forgets to clear the project.
ProjectKept == activeProjectName

\* activeProjectName = null, after the flush of an idle start or focus loss.
StoppedProject == Null

\* activeTabStartTime = null, after the flush of an idle start or focus loss.
StoppedStart == NoTime

StopKinds == {"focusLost", "idleStart"}
BeginKinds == {"onActivated", "onUpdated", "focusGained", "idleEnd"}

\* flushActiveTime returns in task i (t is its record): its last line, and
\* the caller's code up to the caller's next await.  dropNow: this flush
\* found an open span of at most one second and dropped it.
FinishFlush(i, t, dropNow) ==
    LET d == [NoDone EXCEPT !.op = "flush", !.kind = t.kind, !.tab = t.tab,
                            !.added = t.seconds, !.pausedMs = t.pausedMs,
                            !.pre = t.pre]
        checkpoint == [span EXCEPT !.pausedMs = 0,
                                   !.dropped = @ \/ dropNow]
    IN CASE t.kind \in StopKinds ->
              /\ activeProjectName' = StoppedProject
              /\ activeTabStartTime' = StoppedStart
              /\ span' = IF StoppedProject = Null THEN NoSpan ELSE checkpoint
              /\ tasks' = [tasks EXCEPT ![i] = Free]
              /\ done' = [d EXCEPT !.op = "stop"]
         [] t.kind = "alarm" ->
              /\ activeTabStartTime' = StartAfterFlush
              /\ UNCHANGED activeProjectName
              /\ span' = checkpoint
              /\ tasks' = [tasks EXCEPT ![i] = Free]
              /\ done' = d
         [] t.kind = "pauseClick" ->
              /\ activeTabStartTime' = StartAfterFlush
              /\ UNCHANGED activeProjectName
              /\ span' = checkpoint
              /\ tasks' = [tasks EXCEPT ![i] = [t EXCEPT !.pc = "set_paused"]]
              /\ done' = d
         [] t.kind \in BeginKinds ->
              \* startTrackingTab: const tab = await chrome.tabs.get(tabId)
              /\ activeTabStartTime' = StartAfterFlush
              /\ UNCHANGED activeProjectName
              /\ span' = checkpoint
              /\ tasks' = [tasks EXCEPT ![i] = [t EXCEPT !.pc = "tabs_get"]]
              /\ done' = NoDone

\* flushActiveTime is called in task i: either it awaits addTime, or it
\* returns at once.
BeginFlush(i, t) ==
    IF ShouldAdd
    THEN /\ tasks' = [tasks EXCEPT ![i] =
                [t EXCEPT !.pc = "addTime_get", !.name = activeProjectName,
                          !.seconds = Elapsed, !.pausedMs = span.pausedMs]]
         /\ done' = NoDone
         /\ UNCHANGED <<activeProjectName, activeTabStartTime, span>>
    ELSE FinishFlush(i, t,
            /\ activeProjectName # Null
            /\ activeTabStartTime # NoTime
            /\ Elapsed > 0)

\* A day key taken from the day the interval started on.
startDayKey == history.startDay

\* todayKey(): new Date().toISOString().slice(0, 10), the date of the call.
todayKey == today

\* addTime: const timeData = await getTimeData() resumes; the day key is
\* read and the amount added to the copy; storage.local.set is issued.
AddTimeGet(i) ==
    /\ tasks[i].pc = "addTime_get"
    /\ tasks' = [tasks EXCEPT ![i].pc = "addTime_set",
                              ![i].day = todayKey,
                              ![i].td = Added(timeData, todayKey, tasks[i].name,
                                              tasks[i].seconds)]
    /\ done' = NoDone
    /\ UNCHANGED <<activeProjectName, activeTabStartTime, isUserIdle, timeData,
                   trackingPaused, tabSwitchCount, now, today, windowFocused,
                   activations, span>>
    /\ NoGroupCall

\* addTime: await chrome.storage.local.set({ timeData }) resumes; addTime
\* and flushActiveTime return.
AddTimeSet(i) ==
    /\ tasks[i].pc = "addTime_set"
    /\ timeData' = tasks[i].td
    /\ FinishFlush(i, tasks[i], FALSE)
    /\ UNCHANGED <<isUserIdle, trackingPaused, tabSwitchCount, now, today,
                   windowFocused, activations>>
    /\ NoGroupCall

\* A flush that catches the error of addTime and goes on to its last line.
AddTimeThrowsAndFlushGoesOn(i) ==
    /\ tasks[i].pc \in {"addTime_get", "addTime_set"}
    /\ FinishFlush(i, tasks[i], FALSE)
    /\ UNCHANGED <<isUserIdle, timeData, trackingPaused, tabSwitchCount, now,
                   today, windowFocused, activations>>
    /\ NoGroupCall

\* addTime: chrome.storage.local.get or chrome.storage.local.set rejects.
\* Neither addTime nor flushActiveTime nor a caller of it in background.js
\* catches: line 104 and the caller's lines after the flush do not run and
\* the handler's promise rejects.  The popup waiting for the response of
\* flushTime catches the closed channel and goes on to setTrackingPaused.
AddTimeThrows(i) ==
    /\ tasks[i].pc \in {"addTime_get", "addTime_set"}
    /\ tasks' = [tasks EXCEPT ![i] =
                   IF tasks[i].kind = "pauseClick"
                   THEN [tasks[i] EXCEPT !.pc = "set_paused"]
                   ELSE Free]
    /\ done' = [NoDone EXCEPT !.op = "rejected", !.kind = tasks[i].kind,
                              !.tab = tasks[i].tab, !.pre = tasks[i].pre]
    /\ UNCHANGED <<activeProjectName, activeTabStartTime, isUserIdle, timeData,
                   trackingPaused, tabSwitchCount, now, today, windowFocused,
                   activations, span>>
    /\ NoGroupCall

\* ----------------------------------------------------- startTrackingTab

\* if (paused || isUserIdle) return;
BlocksTracking(paused) == paused \/ isUserIdle

\* The try/catch without its fallbacks: the resolver's answer as it comes.
ResolvedNameOrNull(tab) ==
    IF TabsGetThrows(tab) \/ NoUrlOrInternal(tab) THEN Null
    ELSE matchTabToProject(tab)

\* A catch that leaves the tracked project as it was.
ResolvedNameCatchKeeps(tab) ==
    IF TabsGetThrows(tab) THEN activeProjectName
    ELSE IF NoUrlOrInternal(tab) THEN Uncategorized
    ELSE IF matchTabToProject(tab) # Null THEN matchTabToProject(tab)
    ELSE Uncategorized

\* The try/catch of startTrackingTab: the name activeProjectName gets.
ResolvedName(tab) ==
    IF TabsGetThrows(tab) THEN Uncategorized
    ELSE IF NoUrlOrInternal(tab) THEN Uncategorized
    ELSE IF matchTabToProject(tab) # Null THEN matchTabToProject(tab)
    ELSE Uncategorized

\* startTrackingTab(tabId) is called in task i: getTrackingPaused() is
\* awaited.
CallStartTracking(i, kind, tab) ==
    tasks' = [tasks EXCEPT ![i] =
                [NewTask EXCEPT !.kind = kind, !.pc = "get_paused", !.tab = tab,
                             !.pre = Snapshot]]

\* const paused = await getTrackingPaused() resumes: return, or flush.
GetPausedReturns(i) ==
    /\ tasks[i].pc = "get_paused"
    /\ IF BlocksTracking(trackingPaused)
       THEN /\ tasks' = [tasks EXCEPT ![i] = Free]
            /\ done' = [NoDone EXCEPT !.op = "beginTracking",
                                      !.kind = tasks[i].kind,
                                      !.tab = tasks[i].tab,
                                      !.early = TRUE,
                                      !.pre = [tasks[i].pre EXCEPT
                                                 !.paused = trackingPaused]]
            /\ UNCHANGED <<activeProjectName, activeTabStartTime, span>>
       ELSE BeginFlush(i, [tasks[i] EXCEPT !.pre.paused = trackingPaused])
    /\ UNCHANGED <<isUserIdle, timeData, trackingPaused, tabSwitchCount, now,
                   today, windowFocused, activations>>
    /\ NoGroupCall

\* startTrackingTab sets the project and activeTabStartTime = Date.now(),
\* and returns.
SetActive(i, name) ==
    /\ activeProjectName' = name
    /\ activeTabStartTime' = now
    /\ span' = IF name = Null THEN NoSpan ELSE NewSpan(name, timeData)
    /\ tasks' = [tasks EXCEPT ![i] = Free]
    /\ done' = [NoDone EXCEPT !.op = "beginTracking", !.kind = tasks[i].kind,
                              !.tab = tasks[i].tab,
                              !.added = tasks[i].seconds,
                              !.pausedMs = tasks[i].pausedMs,
                              !.pre = tasks[i].pre]

\* const tab = await chrome.tabs.get(tabId) resumes or throws.
TabsGetReturns(i) ==
    /\ tasks[i].pc = "tabs_get"
    /\ IF TabsGetThrows(tasks[i].tab) \/ NoUrlOrInternal(tasks[i].tab)
       THEN SetActive(i, ResolvedName(tasks[i].tab))
       ELSE /\ tasks' = [tasks EXCEPT ![i].pc = "getProjects"]
            /\ done' = NoDone
            /\ UNCHANGED <<activeProjectName, activeTabStartTime, span>>
    /\ UNCHANGED <<isUserIdle, timeData, trackingPaused, tabSwitchCount, now,
                   today, windowFocused, activations>>
    /\ NoGroupCall

\* const projects = await getProjects() resumes; the tab is matched.
GetProjectsReturns(i) ==
    /\ tasks[i].pc = "getProjects"
    /\ SetActive(i, ResolvedName(tasks[i].tab))
    /\ UNCHANGED <<isUserIdle, timeData, trackingPaused, tabSwitchCount, now,
                   today, windowFocused, activations>>
    /\ NoGroupCall

\* ------------------------------------------------- tab-switch counter

\* const count = await getTabSwitchCount() resumes; set is issued.
CountGet(i) ==
    /\ tasks[i].pc = "count_get"
    /\ tasks' = [tasks EXCEPT ![i].pc = "count_set",
                              ![i].count = tabSwitchCount]
    /\ UNCHANGED <<activeProjectName, activeTabStartTime, isUserIdle, timeData,
                   trackingPaused, tabSwitchCount, now, today, windowFocused,
                   activations, span, done>>
    /\ NoGroupCall

\* await chrome.storage.local.set({ tabSwitchCount: count + 1 }) resumes.
CountSet(i) ==
    /\ tasks[i].pc = "count_set"
    /\ tabSwitchCount' = tasks[i].count + 1
    /\ tasks' = [tasks EXCEPT ![i] = Free]
    /\ UNCHANGED <<activeProjectName, activeTabStartTime, isUserIdle, timeData,
                   trackingPaused, now, today, windowFocused, activations,
                   span, done>>
    /\ NoGroupCall

\* ------------------------------------------------------ event listeners

\* chrome.tabs.onActivated: incrementTabSwitchCount() and
\* startTrackingTab(activeInfo.tabId), neither awaited.  At most limit
\* activations are explored.
OnActivatedUpTo(limit, tab) ==
    /\ Cardinality(FreeIds) >= 2
    /\ activations < limit
    /\ activations' = activations + 1
    /\ LET i == FirstFree
           j == CHOOSE k \in FreeIds \ {i} : \A l \in FreeIds \ {i} : k <= l
       IN tasks' = [tasks EXCEPT
                      ![i] = [NewTask EXCEPT !.kind = "increment",
                                          !.pc = "count_get"],
                      ![j] = [NewTask EXCEPT !.kind = "onActivated",
                                          !.pc = "get_paused", !.tab = tab,
                                          !.pre = Snapshot]]
    /\ done' = NoDone
    /\ UNCHANGED <<activeProjectName, activeTabStartTime, isUserIdle, timeData,
                   trackingPaused, tabSwitchCount, now, today, windowFocused,
                   span>>
    /\ NoGroupCall

OnActivated(tab) == OnActivatedUpTo(MaxSwitches, tab)

\* chrome.tabs.onUpdated: if (changeInfo.url && tab.active)
\* startTrackingTab(tabId).
OnUpdated(tab, urlChanged, active) ==
    /\ FreeIds # {}
    /\ IF urlChanged /\ active
       THEN CallStartTracking(FirstFree, "onUpdated", tab)
       ELSE UNCHANGED tasks
    /\ done' = NoDone
    /\ UNCHANGED <<activeProjectName, activeTabStartTime, isUserIdle, timeData,
                   trackingPaused, tabSwitchCount, now, today, windowFocused,
                   activations, span>>
    /\ NoGroupCall

\* chrome.windows.onFocusChanged: all windows lost focus, or a window
\* gained it.
OnFocusChanged(windowId) ==
    /\ FreeIds # {}
    /\ windowFocused' = (windowId # WINDOW_ID_NONE)
    /\ IF windowId = WINDOW_ID_NONE
       THEN BeginFlush(FirstFree,
                [NewTask EXCEPT !.kind = "focusLost", !.pre = Snapshot])
       ELSE /\ tasks' = [tasks EXCEPT ![FirstFree] =
                   [NewTask EXCEPT !.kind = "focusGained",
                                   !.pc = "query_active"]]
            /\ done' = NoDone
            /\ UNCHANGED <<activeProjectName, activeTabStartTime, span>>
    /\ UNCHANGED <<isUserIdle, timeData, trackingPaused, tabSwitchCount, now,
                   today, activations>>
    /\ NoGroupCall

\* chrome.idle.onStateChanged: "idle" or "locked", or "active".
OnIdleStateChanged(newState) ==
    /\ FreeIds # {}
    /\ IF newState = "idle" \/ newState = "locked"
       THEN /\ isUserIdle' = TRUE
            /\ BeginFlush(FirstFree,
                  [NewTask EXCEPT !.kind = "idleStart", !.pre = Snapshot])
       ELSE /\ isUserIdle' = FALSE
            /\ tasks' = [tasks EXCEPT ![FirstFree] =
                   [NewTask EXCEPT !.kind = "idleEnd", !.pc = "query_active"]]
            /\ done' = NoDone
            /\ UNCHANGED <<activeProjectName, activeTabStartTime, span>>
    /\ UNCHANGED <<timeData, trackingPaused, tabSwitchCount, now, today,
                   windowFocused, activations>>
    /\ NoGroupCall

\* const [tab] = await chrome.tabs.query({ active: true, ... }) resumes:
\* if (tab) startTrackingTab(tab.id).
QueryActiveReturns(i, found, tab) ==
    /\ tasks[i].pc = "query_active"
    /\ IF found
       THEN CallStartTracking(i, tasks[i].kind, tab)
       ELSE tasks' = [tasks EXCEPT ![i] = Free]
    /\ done' = NoDone
    /\ UNCHANGED <<activeProjectName, activeTabStartTime, isUserIdle, timeData,
                   trackingPaused, tabSwitchCount, now, today, windowFocused,
                   activations, span>>
    /\ NoGroupCall

\* chrome.alarms.onAlarm with alarm.name === "flush-time".
OnAlarmFlushTime ==
    /\ FreeIds # {}
    /\ BeginFlush(FirstFree,
          [NewTask EXCEPT !.kind = "alarm", !.pre = Snapshot])
    /\ UNCHANGED <<isUserIdle, timeData, trackingPaused, tabSwitchCount, now,
                   today, windowFocused, activations>>
    /\ NoGroupCall

\* ---------------------------------------------------------- daily prune

\* pruneOldData: for each date key,
\* if (dateKey < cutoffStr) delete timeData[dateKey].
Pruned(td, cutoff) == [d \in {k \in DOMAIN td : ~(k < cutoff)} |-> td[d]]

\* What Date can give while pruneOldData runs: the hour of the day in UTC,
\* and the zone's offset from UTC in hours, now and keepDays days ago (New
\* York: -5 in winter, -4 in summer).
Hours == {0, 12, 23}
Offsets == {-5, -4}

\* const cutoff = new Date(); cutoff.setDate(cutoff.getDate() - keepDays);
\* cutoffStr = cutoff.toISOString().slice(0, 10).  setDate goes keepDays
\* days back on the local calendar and keeps the local time of day;
\* toISOString gives the UTC date of that instant.  day is todayKey(), the
\* UTC date now, as a day number.
cutoffStr(day, hour, offsetNow, offsetThen, keepDays) ==
    LET localNow == day * HoursPerDay + hour + offsetNow
        localThen == localNow - keepDays * HoursPerDay
    IN (localThen - offsetThen) \div HoursPerDay

\* pruneOldData(keepDays) is called and awaits getTimeData().
CallPruneOldData(keepDays) ==
    /\ FreeIds # {}
    /\ tasks' = [tasks EXCEPT ![FirstFree] =
           [NewTask EXCEPT !.kind = "prune", !.pc = "prune_get",
                           !.keepDays = keepDays, !.pre = Snapshot]]
    /\ done' = NoDone
    /\ UNCHANGED <<activeProjectName, activeTabStartTime, isUserIdle, timeData,
                   trackingPaused, tabSwitchCount, now, today, windowFocused,
                   activations, span>>
    /\ NoGroupCall

\* chrome.alarms.onAlarm with alarm.name === "daily-prune":
\* pruneOldData(90).
OnAlarmDailyPrune == CallPruneOldData(KeepDays)

\* const timeData = await getTimeData() resumes: the old days are deleted
\* from the copy and storage.local.set is issued.
PruneGet(i) ==
    /\ tasks[i].pc = "prune_get"
    /\ \E hour \in Hours, offsetNow \in Offsets, offsetThen \in Offsets :
          tasks' = [tasks EXCEPT
             ![i].pc = "prune_set",
             ![i].td = Pruned(timeData,
                          cutoffStr(today, hour, offsetNow, offsetThen,
                                    tasks[i].keepDays))]
    /\ done' = NoDone
    /\ UNCHANGED <<activeProjectName, activeTabStartTime, isUserIdle, timeData,
                   trackingPaused, tabSwitchCount, now, today, windowFocused,
                   activations, span>>
    /\ NoGroupCall

\* await chrome.storage.local.set({ timeData }) resumes; pruneOldData
\* returns.
PruneSet(i) ==
    /\ tasks[i].pc = "prune_set"
    /\ timeData' = tasks[i].td
    /\ tasks' = [tasks EXCEPT ![i] = Free]
    /\ done' = [NoDone EXCEPT !.op = "prune", !.kind = "prune",
                              !.keepDays = tasks[i].keepDays,
                              !.pre = tasks[i].pre]
    /\ UNCHANGED <<activeProjectName, activeTabStartTime, isUserIdle,
                   trackingPaused, tabSwitchCount, now, today, windowFocused,
                   activations, span>>
    /\ NoGroupCall

\* ------------------------------------------------------- resetTimeData

\* chrome.runtime.onMessage with action "resetTimeData":
\* Promise.all([clearTimeData(), resetTabSwitchCount()]), both writes issued.
OnMessageResetTimeData ==
    /\ FreeIds # {}
    /\ tasks' = [tasks EXCEPT ![FirstFree] =
           [NewTask EXCEPT !.kind = "reset", !.pc = "reset_both"]]
    /\ done' = NoDone
    /\ UNCHANGED <<activeProjectName, activeTabStartTime, isUserIdle, timeData,
                   trackingPaused, tabSwitchCount, now, today, windowFocused,
                   activations, span>>
    /\ NoGroupCall

\* One of the two writes of task i completed: the other is still to come
\* (the task waits for it), or both are done and sendResponse is called.
ResetWriteDone(i, other) ==
    /\ tasks' = [tasks EXCEPT ![i] =
           IF tasks[i].pc = "reset_both" THEN [tasks[i] EXCEPT !.pc = other]
           ELSE Free]
    /\ done' = IF tasks[i].pc = "reset_both" THEN NoDone
               ELSE [NoDone EXCEPT !.op = "reset", !.kind = "reset"]

\* clearTimeData: await chrome.storage.local.set({ timeData: {} }) resumes.
ClearTimeDataReturns(i) ==
    /\ tasks[i].pc \in {"reset_both", "reset_ledger"}
    /\ timeData' = EmptyTD
    /\ ResetWriteDone(i, "reset_counter")
    /\ UNCHANGED <<activeProjectName, activeTabStartTime, isUserIdle,
                   trackingPaused, tabSwitchCount, now, today, windowFocused,
                   activations, span>>
    /\ NoGroupCall

\* resetTabSwitchCount: await chrome.storage.local.set({ tabSwitchCount: 0 })
\* resumes.
ResetTabSwitchCountReturns(i) ==
    /\ tasks[i].pc \in {"reset_both", "reset_counter"}
    /\ tabSwitchCount' = 0
    /\ ResetWriteDone(i, "reset_ledger")
    /\ UNCHANGED <<activeProjectName, activeTabStartTime, isUserIdle, timeData,
                   trackingPaused, now, today, windowFocused, activations,
                   span>>
    /\ NoGroupCall

\* --------------------------------------------------------- tab grouping

\* What the grouping commands do to the time tracking, the ledger, the
\* counter and the rules: nothing (background.js 24-70 and 174-181).
NoTrackingCall ==
    UNCHANGED <<activeProjectName, activeTabStartTime, isUserIdle, timeData,
                trackingPaused, tabSwitchCount, now, today, windowFocused,
                activations, span, syncStore>>

\* The groups that exist: the browser removes a group when its last tab
\* leaves it.
GroupIds(groupId) == {groupId[t] : t \in HostTabs} \ {NoGroup}

\* chrome.tabGroups.get(groupId) resolves.
GroupExists(groupId) == groupId \in GroupIds(chrome.groupId)

\* The host after the tabs' groups changed: the groups left keep their
\* titles, a new group has none.
WithGroups(c, groupId) ==
    [c EXCEPT !.groupId = groupId,
              !.title = [g \in GroupIds(groupId) |->
                            IF g \in DOMAIN c.title THEN c.title[g]
                            ELSE NoTitle]]

\* A map key that leaves the window out.
GroupKeyOfName(name, window) == <<name>>

\* `${matched.name}-${windowId}`: a window id is a number, so the part after
\* the last "-" is the window and two pairs never give the same key.
GroupKey(name, window) == <<name, window>>

\* groupIdMap.get(key)
MapGet(map, key) == IF key \in DOMAIN map THEN map[key] ELSE NoGroup

\* A map that never learns of a new group.
NotRecorded(map, key, groupId) == map

\* groupIdMap.set(key, newGroupId)
Recorded(map, key, groupId) ==
    [k \in (DOMAIN map) \cup {key} |-> IF k = key THEN groupId ELSE map[k]]

\* An invalidation that drops the whole map.
InvalidatedAll(map, key) == <<>>

\* groupIdMap.delete(key)
Invalidated(map, key) == [k \in (DOMAIN map) \ {key} |-> map[k]]

\* An ungroup call that reaches only the first tab of its list.
UngroupedFirst(groupId, tabIds) ==
    [t \in HostTabs |->
        IF tabIds # <<>> /\ t = Head(tabIds) THEN NoGroup ELSE groupId[t]]

\* chrome.tabs.ungroup(tabIds)
Ungrouped(groupId, tabIds) ==
    [t \in HostTabs |->
        IF \E k \in DOMAIN tabIds : tabIds[k] = t THEN NoGroup
        ELSE groupId[t]]

\* The tabs of the list that are still open.
Open(t) == t \notin chrome.closed

\* The loop of organizeAllTabs from the first tab for which organizeTab
\* reaches an await: if (tab.url) of line 66 and the return of line 26.
RECURSIVE FirstOrganized(_)
FirstOrganized(tabs) ==
    IF tabs = <<>> THEN <<>>
    ELSE IF OrganizeTabReturnsAtOnce(Head(tabs))
         THEN FirstOrganized(Tail(tabs))
         ELSE tabs

\* An awaited host call throws in task i: nothing in organizeTab,
\* organizeAllTabs or clearAllGroups catches it, the command's promise
\* rejects and the .then(() => sendResponse(...)) of the listener never
\* runs.
Rejects(i) ==
    /\ tasks' = [tasks EXCEPT ![i] = Free]
    /\ done' = [NoDone EXCEPT !.op = "rejected", !.kind = tasks[i].kind,
                              !.tab = tasks[i].tab, !.tabs = tasks[i].tabs,
                              !.stale = tasks[i].stale,
                              !.map = tasks[i].map, !.pre = tasks[i].pre]

\* organizeTab has returned in task i (returned tells for which tab and
\* with what) or the loop begins: the loop of organizeAllTabs goes on with
\* tabs, up to the next await of organizeTab, or it ends and
\* sendResponse({ success: true }) runs.  map is groupIdMap by then.
OrganizeNext(i, tabs, map, returned) ==
    LET rest == FirstOrganized(tabs)
    IN IF rest = <<>>
       THEN /\ tasks' = [tasks EXCEPT ![i] = Free]
            /\ done' = [returned EXCEPT !.op = "organizeAllTabs",
                                        !.kind = "organizeAllTabs",
                                        !.pre = tasks[i].pre]
       ELSE /\ tasks' = [tasks EXCEPT ![i] =
                   [tasks[i] EXCEPT !.pc = "organize_getProjects",
                                    !.tab = Head(rest), !.tabs = Tail(rest),
                                    !.name = Null, !.groupId = NoGroup,
                                    !.stale = NoGroup, !.map = map]]
            /\ done' = returned

\* What organizeTab returned with in task i.
Returned(i, groupId) ==
    [NoDone EXCEPT !.op = "organizeTab", !.kind = "organizeAllTabs",
                   !.tab = tasks[i].tab, !.groupId = groupId,
                   !.stale = tasks[i].stale, !.map = tasks[i].map,
                   !.pre = tasks[i].pre]

\* chrome.runtime.onMessage with action "organizeAllTabs":
\* organizeAllTabs() clears the map and awaits chrome.tabs.query({}).
OnMessageOrganizeAllTabs ==
    /\ FreeIds # {}
    /\ groupIdMap' = <<>>
    /\ tasks' = [tasks EXCEPT ![FirstFree] =
           [NewTask EXCEPT !.kind = "organizeAllTabs",
                           !.pc = "organize_query", !.pre = Snapshot]]
    /\ done' = NoDone
    /\ UNCHANGED chrome
    /\ NoTrackingCall

\* const tabs = await chrome.tabs.query({}) resumes: the open tabs.
OrganizeQueryReturns(i) ==
    /\ tasks[i].pc = "organize_query"
    /\ OrganizeNext(i, SelectSeq(AllTabs, Open), groupIdMap, NoDone)
    /\ UNCHANGED <<groupIdMap, chrome>>
    /\ NoTrackingCall

\* const projects = await getProjects() resumes in organizeTab: the tab is
\* matched; if (!matched) return; else chrome.tabs.get(tabId) is awaited.
OrganizeGetProjectsReturns(i) ==
    /\ tasks[i].pc = "organize_getProjects"
    /\ IF matchTabToProject(tasks[i].tab) = Null
       THEN OrganizeNext(i, tasks[i].tabs, groupIdMap, Returned(i, NoGroup))
       ELSE /\ tasks' = [tasks EXCEPT
                   ![i].pc = "organize_tabs_get",
                   ![i].name = matchTabToProject(tasks[i].tab)]
            /\ done' = NoDone
    /\ UNCHANGED <<groupIdMap, chrome>>
    /\ NoTrackingCall

\* The key of the tab that task i organizes.
KeyOf(t) == GroupKey(t.name, WindowOf(t.tab))

\* const windowTab = await chrome.tabs.get(tabId) resumes or throws; the map
\* is asked for the group of the key, and chrome.tabGroups.get or
\* chrome.tabs.group is awaited.
OrganizeTabsGetReturns(i) ==
    /\ tasks[i].pc = "organize_tabs_get"
    /\ IF ~Open(tasks[i].tab)
       THEN Rejects(i)
       ELSE /\ tasks' = [tasks EXCEPT
                   ![i].pc = IF MapGet(groupIdMap, KeyOf(tasks[i])) # NoGroup
                             THEN "organize_tabGroups_get"
                             ELSE "organize_group_new",
                   ![i].groupId = MapGet(groupIdMap, KeyOf(tasks[i]))]
            /\ done' = NoDone
    /\ UNCHANGED <<groupIdMap, chrome>>
    /\ NoTrackingCall

\* await chrome.tabGroups.get(groupId) resumes, or throws and the catch
\* deletes the map entry.
OrganizeTabGroupsGetReturns(i) ==
    /\ tasks[i].pc = "organize_tabGroups_get"
    /\ IF GroupExists(tasks[i].groupId)
       THEN /\ tasks' = [tasks EXCEPT ![i].pc = "organize_group_join"]
            /\ UNCHANGED groupIdMap
       ELSE /\ groupIdMap' = Invalidated(groupIdMap, KeyOf(tasks[i]))
            /\ tasks' = [tasks EXCEPT ![i].pc = "organize_group_new",
                                      ![i].stale = tasks[i].groupId,
                                      ![i].groupId = NoGroup]
    /\ done' = NoDone
    /\ UNCHANGED chrome
    /\ NoTrackingCall

\* await chrome.tabs.group({ tabIds: [tabId], groupId }) resumes or throws;
\* organizeTab returns.
OrganizeGroupJoinReturns(i) ==
    /\ tasks[i].pc = "organize_group_join"
    /\ IF ~Open(tasks[i].tab) \/ ~GroupExists(tasks[i].groupId)
       THEN Rejects(i) /\ UNCHANGED chrome
       ELSE /\ chrome' = WithGroups(chrome,
                   [chrome.groupId EXCEPT ![tasks[i].tab] = tasks[i].groupId])
            /\ OrganizeNext(i, tasks[i].tabs, groupIdMap,
                            Returned(i, tasks[i].groupId))
    /\ UNCHANGED groupIdMap
    /\ NoTrackingCall

\* const newGroupId = await chrome.tabs.group({ tabIds: [tabId],
\* createProperties: { windowId } }) resumes or throws;
\* chrome.tabGroups.update is awaited.
OrganizeGroupNewReturns(i) ==
    /\ tasks[i].pc = "organize_group_new"
    /\ IF ~Open(tasks[i].tab)
       THEN Rejects(i) /\ UNCHANGED chrome
       ELSE LET newGroupId == chrome.lastGroupId + 1
            IN /\ chrome' = [WithGroups(chrome,
                                [chrome.groupId EXCEPT
                                    ![tasks[i].tab] = newGroupId])
                             EXCEPT !.lastGroupId = newGroupId]
               /\ tasks' = [tasks EXCEPT ![i].pc = "organize_tabGroups_update",
                                         ![i].groupId = newGroupId]
               /\ done' = NoDone
    /\ UNCHANGED groupIdMap
    /\ NoTrackingCall

\* await chrome.tabGroups.update(newGroupId, { title, color }) resumes or
\* throws; groupIdMap.set(key, newGroupId); organizeTab returns.
OrganizeTabGroupsUpdateReturns(i) ==
    /\ tasks[i].pc = "organize_tabGroups_update"
    /\ IF ~GroupExists(tasks[i].groupId)
       THEN Rejects(i) /\ UNCHANGED <<groupIdMap, chrome>>
       ELSE /\ chrome' = [chrome EXCEPT
                             !.title[tasks[i].groupId] = tasks[i].name]
            /\ groupIdMap' = Recorded(groupIdMap, KeyOf(tasks[i]),
                                      tasks[i].groupId)
            /\ OrganizeNext(i, tasks[i].tabs,
                            Recorded(groupIdMap, KeyOf(tasks[i]),
                                     tasks[i].groupId),
                            Returned(i, tasks[i].groupId))
    /\ NoTrackingCall

\* chrome.runtime.onMessage with action "clearAllGroups": clearAllGroups()
\* clears the map and awaits chrome.tabs.query({}).
OnMessageClearAllGroups ==
    /\ FreeIds # {}
    /\ groupIdMap' = <<>>
    /\ tasks' = [tasks EXCEPT ![FirstFree] =
           [NewTask EXCEPT !.kind = "clearAllGroups", !.pc = "clear_query",
                           !.pre = Snapshot]]
    /\ done' = NoDone
    /\ UNCHANGED chrome
    /\ NoTrackingCall

\* tabs.filter((t) => t.groupId !== -1).map((t) => t.id)
InAGroup(t) == Open(t) /\ chrome.groupId[t] # NoGroup

\* const tabs = await chrome.tabs.query({}) resumes in clearAllGroups: the
\* grouped tabs are listed; chrome.tabs.ungroup is awaited if there are any,
\* else sendResponse({ success: true }) runs.
ClearQueryReturns(i) ==
    /\ tasks[i].pc = "clear_query"
    /\ IF SelectSeq(AllTabs, InAGroup) # <<>>
       THEN /\ tasks' = [tasks EXCEPT
                   ![i].pc = "clear_ungroup",
                   ![i].tabs = SelectSeq(AllTabs, InAGroup)]
            /\ done' = NoDone
       ELSE /\ tasks' = [tasks EXCEPT ![i] = Free]
            /\ done' = [NoDone EXCEPT !.op = "clearAllGroups",
                                      !.kind = "clearAllGroups",
                                      !.pre = tasks[i].pre]
    /\ UNCHANGED <<groupIdMap, chrome>>
    /\ NoTrackingCall

\* The tabs of the list before its first closed one.
RECURSIVE BeforeClosed(_)
BeforeClosed(tabIds) ==
    IF tabIds = <<>> \/ ~Open(Head(tabIds)) THEN <<>>
    ELSE <<Head(tabIds)>> \o BeforeClosed(Tail(tabIds))

\* await chrome.tabs.ungroup(groupedTabIds) resumes and
\* sendResponse({ success: true }) runs, or it throws for a closed tab: the
\* host then has ungrouped no tab, or the tabs listed before the closed
\* one.
ClearUngroupReturns(i) ==
    /\ tasks[i].pc = "clear_ungroup"
    /\ IF \E k \in DOMAIN tasks[i].tabs : ~Open(tasks[i].tabs[k])
       THEN /\ Rejects(i)
            /\ \E reached \in {<<>>, BeforeClosed(tasks[i].tabs)} :
                  chrome' = WithGroups(chrome,
                               Ungrouped(chrome.groupId, reached))
       ELSE /\ chrome' = WithGroups(chrome,
                            Ungrouped(chrome.groupId, tasks[i].tabs))
            /\ tasks' = [tasks EXCEPT ![i] = Free]
            /\ done' = [NoDone EXCEPT !.op = "clearAllGroups",
                                      !.kind = "clearAllGroups",
                                      !.tabs = tasks[i].tabs,
                                      !.pre = tasks[i].pre]
    /\ UNCHANGED groupIdMap
    /\ NoTrackingCall

\* The user closes a tab.
UserClosesTab(tab) ==
    /\ Open(tab)
    /\ chrome' = [WithGroups(chrome, [chrome.groupId EXCEPT ![tab] = NoGroup])
                  EXCEPT !.closed = @ \cup {tab}]
    /\ done' = NoDone
    /\ UNCHANGED <<groupIdMap, tasks>>
    /\ NoTrackingCall

\* The user ungroups the tabs of a group: the group is gone.
UserUngroups(groupId) ==
    /\ GroupExists(groupId)
    /\ chrome' = WithGroups(chrome,
                    [t \in HostTabs |-> IF chrome.groupId[t] = groupId
                                        THEN NoGroup ELSE chrome.groupId[t]])
    /\ done' = NoDone
    /\ UNCHANGED <<groupIdMap, tasks>>
    /\ NoTrackingCall

\* ------------------------------------------------- install and start-up

\* (p) => p.id === "default-productivity" || p.name === "Productivity"
IsProductivity(p) ==
    \/ p.id = DEFAULT_PRODUCTIVITY_PROJECT.id
    \/ p.name = DEFAULT_PRODUCTIVITY_PROJECT.name

\* projects.findIndex(...), counted from 1; 0 stands for -1.
existingIdx(rules) ==
    IF \E k \in DOMAIN rules : IsProductivity(rules[k])
    THEN CHOOSE k \in DOMAIN rules :
            /\ IsProductivity(rules[k])
            /\ \A j \in 1..(k - 1) : ~IsProductivity(rules[j])
    ELSE 0

\* A seeding that puts the whole built-in rule in the place of the one found.
EnsuredWhole(rules) ==
    IF existingIdx(rules) = 0
    THEN Append(rules, DEFAULT_PRODUCTIVITY_PROJECT)
    ELSE [rules EXCEPT ![existingIdx(rules)] = DEFAULT_PRODUCTIVITY_PROJECT]

\* ensureProductivityProject, lines 248-258: the list it stores.
Ensured(rules) ==
    IF existingIdx(rules) = 0
    THEN Append(rules, DEFAULT_PRODUCTIVITY_PROJECT)
    ELSE [rules EXCEPT ![existingIdx(rules)].patterns =
                          DEFAULT_PRODUCTIVITY_PROJECT.patterns]

\* chrome.runtime.onInstalled and chrome.runtime.onStartup:
\* ensureProductivityProject() awaits chrome.storage.sync.get.
OnInstalledOrStartup(kind) ==
    /\ FreeIds # {}
    /\ tasks' = [tasks EXCEPT ![FirstFree] =
           [NewTask EXCEPT !.kind = kind, !.pc = "ensure_get",
                           !.pre = Snapshot]]
    /\ done' = NoDone
    /\ UNCHANGED <<activeProjectName, activeTabStartTime, isUserIdle, timeData,
                   trackingPaused, tabSwitchCount, now, today, windowFocused,
                   activations, span, groupIdMap, chrome, syncStore>>

\* const { projects } = await chrome.storage.sync.get({ projects: [] })
\* resumes: the list is changed and chrome.storage.sync.set is awaited.
EnsureGet(i) ==
    /\ tasks[i].pc = "ensure_get"
    /\ tasks' = [tasks EXCEPT
           ![i].pc = "ensure_set",
           ![i].projects = Ensured(StoredProjects(syncStore, <<>>))]
    /\ done' = NoDone
    /\ UNCHANGED <<activeProjectName, activeTabStartTime, isUserIdle, timeData,
                   trackingPaused, tabSwitchCount, now, today, windowFocused,
                   activations, span, groupIdMap, chrome, syncStore>>

\* await chrome.storage.sync.set({ projects }) resumes; the listener
\* returns.
EnsureSet(i) ==
    /\ tasks[i].pc = "ensure_set"
    /\ syncStore' = [k \in (DOMAIN syncStore) \cup {"projects"} |->
                        IF k = "projects" THEN tasks[i].projects
                        ELSE syncStore[k]]
    /\ tasks' = [tasks EXCEPT ![i] = Free]
    /\ done' = [NoDone EXCEPT !.op = "ensureProductivityProject",
                              !.kind = tasks[i].kind, !.pre = tasks[i].pre]
    /\ UNCHANGED <<activeProjectName, activeTabStartTime, isUserIdle, timeData,
                   trackingPaused, tabSwitchCount, now, today, windowFocused,
                   activations, span, groupIdMap, chrome>>

\* ------------------------------------------------- popup pause toggle

\* pauseBtn click: getTrackingPaused() is awaited.
PauseClick ==
    /\ FreeIds # {}
    /\ tasks' = [tasks EXCEPT ![FirstFree] =
           [NewTask EXCEPT !.kind = "pauseClick", !.pc = "popup_get_paused"]]
    /\ done' = NoDone
    /\ UNCHANGED <<activeProjectName, activeTabStartTime, isUserIdle, timeData,
                   trackingPaused, tabSwitchCount, now, today, windowFocused,
                   activations, span>>
    /\ NoGroupCall

\* const wasPaused = await getTrackingPaused() resumes: the flushTime
\* message is sent when pausing, setTrackingPaused is called when resuming.
PopupGetPausedReturns(i) ==
    /\ tasks[i].pc = "popup_get_paused"
    /\ tasks' = [tasks EXCEPT
                   ![i].nowPaused = ~trackingPaused,
                   ![i].pc = IF ~trackingPaused THEN "msg_flushTime"
                                                ELSE "set_paused"]
    /\ done' = NoDone
    /\ UNCHANGED <<activeProjectName, activeTabStartTime, isUserIdle, timeData,
                   trackingPaused, tabSwitchCount, now, today, windowFocused,
                   activations, span>>
    /\ NoGroupCall

\* chrome.runtime.onMessage with action "flushTime": flushActiveTime(), then
\* sendResponse.
OnMessageFlushTime(i) ==
    /\ tasks[i].pc = "msg_flushTime"
    /\ BeginFlush(i, [tasks[i] EXCEPT !.pre = Snapshot])
    /\ UNCHANGED <<isUserIdle, timeData, trackingPaused, tabSwitchCount, now,
                   today, windowFocused, activations>>
    /\ NoGroupCall

\* await setTrackingPaused(nowPaused) resumes.
SetPausedReturns(i) ==
    /\ tasks[i].pc = "set_paused"
    /\ trackingPaused' = tasks[i].nowPaused
    /\ tasks' = [tasks EXCEPT ![i] = Free]
    /\ done' = [NoDone EXCEPT !.op = "pause", !.kind = "pauseClick"]
    /\ UNCHANGED <<activeProjectName, activeTabStartTime, isUserIdle, timeData,
                   tabSwitchCount, now, today, windowFocused, activations,
                   span>>
    /\ NoGroupCall

\* -------------------------------------------------------------- clock

\* Time passes: half a second, across midnight or not, up to limit ticks.
TickUpTo(limit, midnight) ==
    /\ now < MsPerSecond + limit * TickMs
    /\ midnight => today < MaxDay
    /\ now' = now + TickMs
    /\ today' = IF midnight THEN today + 1 ELSE today
    /\ span' = IF trackingPaused /\ activeProjectName # Null
               THEN [span EXCEPT !.pausedMs = @ + TickMs]
               ELSE span
    /\ done' = NoDone
    /\ UNCHANGED <<activeProjectName, activeTabStartTime, isUserIdle, timeData,
                   trackingPaused, tabSwitchCount, windowFocused, activations,
                   tasks>>
    /\ NoGroupCall

Tick(midnight) == TickUpTo(MaxTicks, midnight)

\* ----------------------------------------------------- specifications

\* A specification that records nothing of the past.
Frozen == UNCHANGED <<history, call>>

\* A specification that records the day of each assignment to
\* activeTabStartTime.
RecordStartDay ==
    /\ history' = IF activeTabStartTime' # activeTabStartTime
                  THEN [history EXCEPT !.startDay = today]
                  ELSE history
    /\ UNCHANGED call

\* An event arrives and its listener runs to its first await.
Dispatch ==
    \/ \E tab \in Tabs : OnActivated(tab)
    \/ \E tab \in Tabs : OnUpdated(tab, TRUE, TRUE)
    \* Without a url change, or for a tab that is not the active one, the
    \* listener does nothing, whatever the tab.
    \/ \E urlChanged \in BOOLEAN, active \in BOOLEAN :
          ~(urlChanged /\ active) /\ OnUpdated("tNone", urlChanged, active)
    \/ \E windowId \in {WINDOW_ID_NONE, "w1"} : OnFocusChanged(windowId)
    \/ \E newState \in {"active", "idle", "locked"} :
          OnIdleStateChanged(newState)
    \/ OnAlarmFlushTime
    \/ PauseClick

\* An awaited call completes and its task runs on to its next await.
Resume ==
    \E i \in InFlight :
        \/ GetPausedReturns(i)
        \/ AddTimeGet(i)
        \/ AddTimeSet(i)
        \/ TabsGetReturns(i)
        \/ GetProjectsReturns(i)
        \/ /\ tasks[i].pc = "query_active"
           /\ \E found \in BOOLEAN, tab \in Tabs :
                 QueryActiveReturns(i, found, tab)
        \/ CountGet(i)
        \/ CountSet(i)
        \/ PopupGetPausedReturns(i)
        \/ OnMessageFlushTime(i)
        \/ SetPausedReturns(i)

\* The daily prune and the reset command, and their await points.
Maintenance ==
    \/ OnAlarmDailyPrune
    \/ OnMessageResetTimeData
    \/ \E i \in InFlight :
          \/ PruneGet(i)
          \/ PruneSet(i)
          \/ ClearTimeDataReturns(i)
          \/ ResetTabSwitchCountReturns(i)

Next ==
    \/ Frozen /\ \E midnight \in BOOLEAN : Tick(midnight)
    \/ Frozen /\ Dispatch
    \/ Frozen /\ Resume
    \/ Frozen /\ Maintenance

\* Tasks interleave at their await points.
Spec == Init /\ [][Next]_vars

NextSerial ==
    \/ InFlight = {} /\ Frozen /\ \E midnight \in BOOLEAN : Tick(midnight)
    \/ InFlight = {} /\ Frozen /\ Dispatch
    \/ Frozen /\ Resume

\* One handler at a time: an event is delivered, and the clock advances,
\* only when no task is in flight.
SpecSerial == Init /\ [][NextSerial]_vars

NextCheckpoint ==
    \/ /\ InFlight = {}
       /\ \E midnight \in BOOLEAN : TickUpTo(MaxCheckpointTicks, midnight)
       /\ RecordStartDay
    \/ /\ InFlight = {}
       /\ \E tab \in Tabs : OnUpdated(tab, TRUE, TRUE)
       /\ RecordStartDay
    \/ /\ InFlight = {}
       /\ OnAlarmFlushTime
       /\ RecordStartDay
    \/ \E i \in InFlight :
          /\ \/ GetPausedReturns(i)
             \/ AddTimeGet(i)
             \/ AddTimeSet(i)
             \/ TabsGetReturns(i)
             \/ GetProjectsReturns(i)
          /\ RecordStartDay

\* The checkpoint scenario: the active tab's url changes, the periodic
\* timer fires and time passes; nothing else happens.  The day on which
\* each interval started is recorded.
SpecCheckpoint == Init /\ [][NextCheckpoint]_vars

\* The addTime call of task i completes: its amount is credited.
RecordAdd(i) ==
    /\ history' = [history EXCEPT !.credited =
                     Added(@, tasks[i].day, tasks[i].name, tasks[i].seconds)]
    /\ UNCHANGED call

\* The prune of task i completes: what it deleted is no longer credited.
RecordPrune ==
    /\ history' = [history EXCEPT !.credited = Pruned(@, today - KeepDays)]
    /\ UNCHANGED call

NextOverlap ==
    \/ /\ InFlight = {}
       /\ TickUpTo(MaxOverlapTicks, FALSE)
       /\ Frozen
    \/ /\ Cardinality(InFlight) < MaxOverlap
       /\ \E tab \in {"tA", "tB"} : OnActivated(tab)
       /\ Frozen
    \/ /\ Cardinality(InFlight) < MaxOverlap
       /\ \E tab \in {"tA", "tB"} : OnUpdated(tab, TRUE, TRUE)
       /\ Frozen
    \/ /\ Cardinality(InFlight) < MaxOverlap
       /\ \A i \in TaskIds : tasks[i].kind # "alarm"
       /\ OnAlarmFlushTime
       /\ Frozen
    \/ /\ Cardinality(InFlight) < MaxOverlap
       /\ \A i \in TaskIds : tasks[i].kind # "prune"
       /\ OnAlarmDailyPrune
       /\ Frozen
    \/ \E i \in InFlight :
          \/ GetPausedReturns(i) /\ Frozen
          \/ AddTimeGet(i) /\ Frozen
          \/ AddTimeSet(i) /\ RecordAdd(i)
          \/ TabsGetReturns(i) /\ Frozen
          \/ GetProjectsReturns(i) /\ Frozen
          \/ CountGet(i) /\ Frozen
          \/ CountSet(i) /\ Frozen
          \/ PruneGet(i) /\ Frozen
          \/ PruneSet(i) /\ RecordPrune

\* The overlap scenario: url changes of the active tab, the periodic timer
\* and the daily prune, their handlers interleaved at their await points.
\* The clock advances between handlers, and an alarm's handler is done
\* before the same alarm fires again (the periods are 30 seconds and a
\* day); what addTime added is recorded.
SpecOverlap == Init /\ [][NextOverlap]_vars

\* The reset command is sent.
RecordResetSent ==
    /\ history' = [history EXCEPT !.reset = "pending"]
    /\ UNCHANGED call

\* An increment completes.
RecordIncrement ==
    /\ history' = [history EXCEPT !.counted = @ + 1]
    /\ UNCHANGED call

\* clearTimeData completes in task i, perhaps as the last of the two.
RecordLedgerCleared(i) ==
    /\ history' = [history EXCEPT
           !.credited = EmptyTD,
           !.reset = IF tasks'[i].pc = "free" THEN "done" ELSE @]
    /\ UNCHANGED call

\* resetTabSwitchCount completes in task i, perhaps as the last of the two.
RecordCounterCleared(i) ==
    /\ history' = [history EXCEPT
           !.counted = 0,
           !.reset = IF tasks'[i].pc = "free" THEN "done" ELSE @]
    /\ UNCHANGED call

NextCounter ==
    \/ /\ \E tab \in Tabs : OnActivatedUpTo(MaxCounterSwitches, tab)
       /\ Frozen
    \/ /\ history.reset = "never"
       /\ OnMessageResetTimeData
       /\ RecordResetSent
    \/ \E i \in InFlight :
          \/ CountGet(i) /\ Frozen
          \/ CountSet(i) /\ RecordIncrement
          \/ ClearTimeDataReturns(i) /\ RecordLedgerCleared(i)
          \/ ResetTabSwitchCountReturns(i) /\ RecordCounterCleared(i)
          \/ GetPausedReturns(i) /\ Frozen
          \/ TabsGetReturns(i) /\ Frozen
          \/ GetProjectsReturns(i) /\ Frozen

\* The counter scenario: tab activations and one resetTimeData command,
\* their handlers interleaved at their await points, at one instant.  The
\* increments completed since the counter was cleared are recorded.
SpecCounter == Init /\ [][NextCounter]_vars

\* A grouping command is sent.
RecordCommand ==
    /\ history' = [history EXCEPT !.commands = @ + 1, !.disturbed = FALSE]
    /\ UNCHANGED call

\* The user changes the tabs or the groups.
RecordHostChange ==
    /\ history' = [history EXCEPT !.hostChanges = @ + 1, !.disturbed = TRUE,
                                  !.organized = <<>>]
    /\ UNCHANGED call

\* A step of a grouping command: the end of a pass is recorded.
RecordPass ==
    /\ history' =
          CASE done'.op = "organizeAllTabs" ->
                  [history EXCEPT !.before = history.organized,
                                  !.organized = IF history.disturbed THEN <<>>
                                                ELSE chrome'.groupId]
            [] done'.op \in {"clearAllGroups", "rejected"} ->
                  [history EXCEPT !.before = <<>>, !.organized = <<>>]
            [] OTHER -> history
    /\ UNCHANGED call

\* The host as the service worker finds it: no groups, or a group the user
\* made of a page of rule A and a page no rule matches.
InitGroups ==
    /\ Started
    /\ call = NoCall
    /\ timeData = EmptyTD
    /\ today = 0
    /\ syncStore = [projects |-> TableRules]
    /\ chrome \in
          {FreshChrome,
           [FreshChrome EXCEPT !.groupId["tA"] = 1, !.groupId["tNone"] = 1,
                               !.title = [g \in {1} |-> NoTitle],
                               !.lastGroupId = 1]}

NextGroups ==
    \/ /\ InFlight = {}
       /\ history.commands < MaxCommands
       /\ OnMessageOrganizeAllTabs
       /\ RecordCommand
    \/ /\ InFlight = {}
       /\ history.commands < MaxCommands
       /\ OnMessageClearAllGroups
       /\ RecordCommand
    \/ /\ history.hostChanges < MaxHostChanges
       /\ \E tab \in HostTabs : UserClosesTab(tab)
       /\ RecordHostChange
    \/ /\ history.hostChanges < MaxHostChanges
       /\ \E groupId \in GroupIds(chrome.groupId) : UserUngroups(groupId)
       /\ RecordHostChange
    \/ \E i \in InFlight :
          /\ \/ OrganizeQueryReturns(i)
             \/ OrganizeGetProjectsReturns(i)
             \/ OrganizeTabsGetReturns(i)
             \/ OrganizeTabGroupsGetReturns(i)
             \/ OrganizeGroupJoinReturns(i)
             \/ OrganizeGroupNewReturns(i)
             \/ OrganizeTabGroupsUpdateReturns(i)
             \/ ClearQueryReturns(i)
             \/ ClearUngroupReturns(i)
          /\ RecordPass

\* The grouping commands, one at a time, while the user closes tabs and
\* removes groups.
SpecGroups == InitGroups /\ [][NextGroups]_vars

\* The rules the options page can have stored: any id it generated or the
\* default one, any name, colour and pattern list.
StoredRules ==
    [id : {DEFAULT_PRODUCTIVITY_PROJECT.id, "u1", "u2"},
     name : {DEFAULT_PRODUCTIVITY_PROJECT.name, "A"},
     color : {DEFAULT_PRODUCTIVITY_PROJECT.color, "red"},
     patterns : {DEFAULT_PRODUCTIVITY_PROJECT.patterns, "edited"}]

\* The stored lists of up to MaxStored rules: ids are unique.
StoredLists ==
    {rules \in SeqsUpTo(StoredRules, MaxStored) :
        \A j, k \in DOMAIN rules : rules[j].id = rules[k].id => j = k}

\* The store at install or start-up: never written, or holding a list.
InitSeeding ==
    /\ Started
    /\ call = NoCall
    /\ timeData = EmptyTD
    /\ today = 0
    /\ chrome = FreshChrome
    /\ syncStore \in {<<>>} \cup {[projects |-> rules] : rules \in StoredLists}

NextSeeding ==
    \/ /\ InFlight = {}
       /\ \E kind \in {"onInstalled", "onStartup"} : OnInstalledOrStartup(kind)
       /\ Frozen
    \/ \E i \in InFlight :
          /\ EnsureGet(i) \/ EnsureSet(i)
          /\ Frozen

\* Install and start-up on every stored rule list of the bounded set.
SpecSeeding == InitSeeding /\ [][NextSeeding]_vars

\* The listeners of SpecSerial without the clock, the daily prune and the
\* reset, install and start-up, and the two grouping commands: one handler
\* at a time.
NextListeners ==
    \/ InFlight = {} /\ Frozen /\ Dispatch
    \/ Frozen /\ Resume
    \/ InFlight = {} /\ Frozen /\ (OnAlarmDailyPrune \/ OnMessageResetTimeData)
    \/ \E i \in InFlight :
          /\ \/ PruneGet(i)
             \/ PruneSet(i)
             \/ ClearTimeDataReturns(i)
             \/ ResetTabSwitchCountReturns(i)
          /\ Frozen
    \/ /\ InFlight = {}
       /\ \E kind \in {"onInstalled", "onStartup"} : OnInstalledOrStartup(kind)
       /\ Frozen
    \/ \E i \in InFlight :
          /\ EnsureGet(i) \/ EnsureSet(i)
          /\ Frozen
    \/ /\ InFlight = {}
       /\ history.commands < MaxRequests
       /\ OnMessageOrganizeAllTabs \/ OnMessageClearAllGroups
       /\ RecordCommand
    \/ \E i \in InFlight :
          /\ \/ OrganizeQueryReturns(i)
             \/ OrganizeGetProjectsReturns(i)
             \/ OrganizeTabsGetReturns(i)
             \/ OrganizeTabGroupsGetReturns(i)
             \/ OrganizeGroupJoinReturns(i)
             \/ OrganizeGroupNewReturns(i)
             \/ OrganizeTabGroupsUpdateReturns(i)
             \/ ClearQueryReturns(i)
             \/ ClearUngroupReturns(i)
          /\ RecordPass

SpecListeners == Init /\ [][NextListeners]_vars

\* The ledgers with any of the day keys up to MaxPruneDay: the row of a day
\* holds a time for project A that tells the days apart.
PruneLedgers ==
    {[d \in days |-> [n \in Keys |-> IF n = "A" THEN (d + 2) * MsPerSecond
                                     ELSE 0]] :
        days \in SUBSET (0..MaxPruneDay)}

InitPrune ==
    /\ Started
    /\ call = NoCall
    /\ chrome = FreshChrome
    /\ syncStore = [projects |-> TableRules]
    /\ timeData \in PruneLedgers
    /\ today \in (MaxPruneDay - 1)..MaxPruneDay

NextPrune ==
    \/ /\ InFlight = {}
       /\ \E keepDays \in 0..MaxKeepDays : CallPruneOldData(keepDays)
       /\ Frozen
    \/ \E i \in InFlight : PruneGet(i) /\ Frozen
    \/ \E i \in InFlight : PruneSet(i) /\ Frozen

\* pruneOldData on every ledger, date and retention horizon of the bounded
\* sets, at any hour and in either season.
SpecPrune == InitPrune /\ [][NextPrune]_vars

\* The interval that was open when the ledger store failed is recorded,
\* until the step after the next flush that went through.
RecordFailure ==
    /\ history' = [history EXCEPT
                      !.failures = @ + 1,
                      !.failed = [project |-> activeProjectName,
                                  start |-> activeTabStartTime]]
    /\ UNCHANGED call

\* A flush went through in the last step.
Flushed ==
    /\ done.op \in {"flush", "stop", "beginTracking"}
    /\ ~done.early

RecordFlushed ==
    /\ history' = IF Flushed THEN [history EXCEPT !.failed = NoHistory.failed]
                  ELSE history
    /\ UNCHANGED call

NextStoreFails ==
    \/ /\ InFlight = {}
       /\ TickUpTo(MaxStoreTicks, FALSE)
       /\ RecordFlushed
    \/ /\ InFlight = {}
       /\ \/ \E tab \in {"tA", "tB"} : OnActivated(tab)
          \/ OnFocusChanged(WINDOW_ID_NONE)
          \/ OnIdleStateChanged("idle")
          \/ OnAlarmFlushTime
          \/ PauseClick
       /\ RecordFlushed
    \/ /\ \E i \in InFlight :
             \/ GetPausedReturns(i)
             \/ AddTimeGet(i)
             \/ AddTimeSet(i)
             \/ TabsGetReturns(i)
             \/ GetProjectsReturns(i)
             \/ CountGet(i)
             \/ CountSet(i)
             \/ PopupGetPausedReturns(i)
             \/ OnMessageFlushTime(i)
             \/ SetPausedReturns(i)
       /\ RecordFlushed
    \/ /\ history.failures < MaxFailures
       /\ \E i \in InFlight : AddTimeThrows(i)
       /\ RecordFailure

\* One handler at a time, while chrome.storage.local can fail under
\* addTime.
SpecStoreFails == Init /\ [][NextStoreFails]_vars

\* A tab-activated event is delivered: the tab is recorded.
RecordActivated ==
    /\ history' = [history EXCEPT
                      !.activated = Append(@, CHOOSE tab \in Tabs :
                          \E i \in TaskIds :
                             /\ tasks[i].pc = "free"
                             /\ tasks'[i].kind = "onActivated"
                             /\ tasks'[i].tab = tab)]
    /\ UNCHANGED call

NextRace ==
    \/ /\ InFlight = {}
       /\ TickUpTo(MaxRaceTicks, FALSE)
       /\ Frozen
    \/ /\ \E tab \in {"tA", "tB", "tNoUrl"} :
             OnActivatedUpTo(MaxRaceSwitches, tab)
       /\ RecordActivated
    \/ /\ \A i \in TaskIds : tasks[i].kind # "idleStart"
       /\ \E newState \in {"idle", "locked"} : OnIdleStateChanged(newState)
       /\ Frozen
    \/ /\ \E i \in InFlight :
             \/ GetPausedReturns(i)
             \/ AddTimeGet(i)
             \/ AddTimeSet(i)
             \/ TabsGetReturns(i)
             \/ GetProjectsReturns(i)
             \/ CountGet(i)
             \/ CountSet(i)
       /\ Frozen

\* The race scenario: tab activations and the start of an idle period,
\* their handlers interleaved at their await points; the tabs activated
\* are recorded in the order of the events.
SpecRace == Init /\ [][NextRace]_vars

\* ------------------------------------------------- pure function calls

\* The call returns: the function is applied to the arguments.
Return(result) ==
    /\ ~call.returned
    /\ call' = result
    /\ UNCHANGED <<activeProjectName, activeTabStartTime, isUserIdle, timeData,
                   trackingPaused, tabSwitchCount, now, today, windowFocused,
                   activations, tasks, span, done, history>>
    /\ NoGroupCall

CallTextMatchesPattern ==
    /\ call.fn = "textMatchesPattern"
    /\ Return([call EXCEPT !.returned = TRUE,
                 !.matches = textMatchesPattern(call.text, call.pattern)])

CallExtractPrimaryName ==
    /\ call.fn = "extractPrimaryName"
    /\ Return([call EXCEPT !.returned = TRUE,
                 !.primaryName = extractPrimaryName(call.title)])

CallMatchTabToProject ==
    /\ call.fn = "matchTabToProject"
    /\ Return([call EXCEPT !.returned = TRUE,
                 !.project = MatchTabToProject(call.url, call.title,
                                               call.projects)])

InitStrings ==
    /\ Started
    /\ timeData = EmptyTD
    /\ today = 0
    /\ chrome = FreshChrome
    /\ syncStore = [projects |-> TableRules]
    /\ call \in
          {[NoCall EXCEPT !.fn = "textMatchesPattern", !.text = t,
                          !.pattern = p] : t \in Texts, p \in Patterns}
          \cup {[NoCall EXCEPT !.fn = "extractPrimaryName", !.title = t] :
                   t \in Titles}

NextStrings ==
    \/ CallTextMatchesPattern
    \/ CallExtractPrimaryName

\* The pattern matcher and the name normalizer, each called once on every
\* input of the bounded sets.
SpecStrings == InitStrings /\ [][NextStrings]_vars

InitResolver ==
    /\ Started
    /\ timeData = EmptyTD
    /\ today = 0
    /\ chrome = FreshChrome
    /\ syncStore = [projects |-> TableRules]
    /\ call \in
          {[NoCall EXCEPT !.fn = "matchTabToProject", !.url = u, !.title = t,
                          !.projects = ps] :
              u \in ResolverUrls, t \in ResolverTitles, ps \in RuleLists}

\* The resolver, called once on every input of the bounded sets.
SpecResolver == InitResolver /\ [][CallMatchTabToProject]_vars

\* ------------------------------------------------------------- claims

\* The ledger is what it was before the handler, plus ms under today's key
\* for the name (nothing when the name is Null or ms is 0).
LedgerIs(before, name, ms) ==
    \A d \in Days, n \in Keys :
        Get(timeData, d, n) =
            Get(before, d, n) + (IF d = today /\ n = name THEN ms ELSE 0)

\* The interval that was open before the handler: elapsed ms, 0 if none.
ElapsedBefore(pre) ==
    IF pre.project # Null /\ pre.start # NoTime THEN now - pre.start ELSE 0

\* C1. Checkpoint correctness: a project tracked since s, flushed by the
\* periodic timer at t1 < t2 < ... with every gap over one second, has
\* after the flush at tk a ledger total of tk - s more than at s: each
\* flush adds only the time since the previous one.
C1_CheckpointCorrect ==
    (done.op = "flush" /\ activeProjectName # Null /\ ~span.dropped)
        => Total(timeData, activeProjectName) - span.totalAtOpen
              = now - span.openedAt

\* A second flush of the same interval: both added, the sum is tk - s.
C1_Witness ==
    /\ done.op = "flush"
    /\ activeProjectName = "A"
    /\ ~span.dropped
    /\ done.added > ThresholdMs
    /\ now - span.openedAt > done.added
    /\ Total(timeData, "A") = now - span.openedAt

\* C2. Flush-before-switch: beginTracking running alone, not paused and not
\* idle, with Tracking(A, s) open: the elapsed time now - s, if over one
\* second, is added to A under today's key and to nothing else, and the
\* state becomes Tracking(B, now) for the name B the new tab resolves to.
C2_FlushBeforeSwitch ==
    (/\ done.op = "beginTracking"
     /\ ~done.pre.paused /\ ~done.pre.idle
     /\ done.pre.project # Null /\ done.pre.start # NoTime)
        => /\ LedgerIs(done.pre.timeData, done.pre.project,
                       IF now - done.pre.start > ThresholdMs
                       THEN now - done.pre.start ELSE 0)
           /\ activeProjectName =
                 (CASE done.tab = "tA" -> "A"
                    [] done.tab = "tB" -> "B"
                    [] OTHER -> Uncategorized)
           /\ activeTabStartTime = now

\* A switch from A to B after more than a second on A.
C2_Witness ==
    /\ done.op = "beginTracking"
    /\ ~done.pre.paused /\ ~done.pre.idle
    /\ done.pre.project = "A"
    /\ done.tab = "tB"
    /\ now - done.pre.start > ThresholdMs
    /\ activeProjectName = "B"
    /\ Get(timeData, today, "A") = Get(done.pre.timeData, today, "A")
                                      + (now - done.pre.start)
    /\ Get(timeData, today, "B") = Get(done.pre.timeData, today, "B")

\* C3. beginTracking called while the paused flag is set or the user is
\* idle leaves the machine in Idle-no-project (project none, start none)
\* and the ledger unchanged, whatever the state before.
C3_PausedOrIdleEndsIdle ==
    (done.op = "beginTracking" /\ (done.pre.paused \/ done.pre.idle))
        => /\ activeProjectName = Null
           /\ activeTabStartTime = NoTime
           /\ timeData = done.pre.timeData

\* C4. Time that passes while the paused flag is set is never added to the
\* ledger: whenever a handler's flush adds a span, no part of that span
\* passed with the flag set.
C4_PausedTimeNeverAdded ==
    (done.op # "none" /\ done.added > 0) => done.pausedMs = 0

\* C5. While the browser window is unfocused (after all windows lost focus,
\* until a window gains it) no interval is opened and no seconds are added:
\* between handlers no project is tracked, and no handler but the
\* focus-lost one itself adds to the ledger.
C5_NoTrackingWhileUnfocused ==
    ~windowFocused =>
        /\ InFlight = {} => activeProjectName = Null
        /\ (done.op # "none" /\ done.kind # "focusLost") => done.added = 0

\* C6. After the idle-start or the focus-lost handler ran alone, the open
\* interval's elapsed time, if over one second, has been added to its
\* project, and the state is Idle-no-project: project none, start none.
C6_StopFlushesAndClears ==
    done.op = "stop"
        => /\ LedgerIs(done.pre.timeData, done.pre.project,
                       IF ElapsedBefore(done.pre) > ThresholdMs
                       THEN ElapsedBefore(done.pre) ELSE 0)
           /\ activeProjectName = Null
           /\ activeTabStartTime = NoTime

\* The window loses focus after more than a second on A.
C6_Witness ==
    /\ done.op = "stop"
    /\ done.kind = "focusLost"
    /\ done.pre.project = "A"
    /\ ElapsedBefore(done.pre) > ThresholdMs
    /\ Get(timeData, today, "A") = Get(done.pre.timeData, today, "A")
                                      + ElapsedBefore(done.pre)
    /\ activeProjectName = Null

\* C7. flush never ends tracking: called in Tracking(project, startTime) it
\* leaves the project and sets startTime to now, whether or not the elapsed
\* time was over one second.
C7_FlushKeepsTracking ==
    (done.op = "flush" /\ done.pre.project # Null /\ done.pre.start # NoTime)
        => /\ activeProjectName = done.pre.project
           /\ activeTabStartTime = now

\* A flush after exactly one second: nothing added, the interval goes on.
C7_Witness ==
    /\ done.op = "flush"
    /\ done.pre.project = "A"
    /\ now - done.pre.start = MsPerSecond
    /\ done.added = 0
    /\ activeProjectName = "A"
    /\ activeTabStartTime = now

\* C8. Sub-threshold filter: a flush of an open interval adds the elapsed
\* time to the ledger if and only if it is strictly over one second; half
\* a second and exactly one second add nothing.
C8_SubThresholdFilter ==
    (done.op = "flush" /\ done.pre.project # Null /\ done.pre.start # NoTime)
        => LedgerIs(done.pre.timeData, done.pre.project,
                    IF now - done.pre.start > ThresholdMs
                    THEN now - done.pre.start ELSE 0)

\* A flush of an interval of exactly one second leaves the ledger alone.
C8_Witness ==
    /\ done.op = "flush"
    /\ done.pre.project = "B"
    /\ now - done.pre.start = MsPerSecond
    /\ timeData = done.pre.timeData

\* C9 as stated. flush with no open interval (project none, start none)
\* leaves project none and start none.
C9_FlushWithNothingOpenIsNoOp ==
    (done.op = "flush" /\ done.pre.project = Null /\ done.pre.start = NoTime)
        => /\ activeProjectName = Null
           /\ activeTabStartTime = NoTime

\* C9 as amended. flush with no open interval (project none, start none)
\* leaves project none, so no interval is opened; the start time is set to
\* the time of the flush.
C9_FlushWithNothingOpenKeepsNoProject ==
    (done.op = "flush" /\ done.pre.project = Null /\ done.pre.start = NoTime)
        => /\ activeProjectName = Null
           /\ activeTabStartTime = now

\* The periodic timer fires before any tab was tracked.
C9_Witness ==
    /\ done.op = "flush"
    /\ done.kind = "alarm"
    /\ done.pre.project = Null
    /\ done.pre.start = NoTime
    /\ activeProjectName = Null
    /\ activeTabStartTime # NoTime

\* C10. Flush idempotence with nothing tracked: a flush while no project is
\* tracked changes the ledger by zero, however many came before it.
C10_FlushNothingTrackedKeepsLedger ==
    (done.op = "flush" /\ done.pre.project = Null)
        => timeData = done.pre.timeData

\* A further flush with nothing tracked, more than a second after an
\* earlier one left its start time.
C10_Witness ==
    /\ done.op = "flush"
    /\ done.pre.project = Null
    /\ done.pre.start # NoTime
    /\ now - done.pre.start > ThresholdMs
    /\ timeData = done.pre.timeData

\* C11. When beginTracking completes while tracking is not paused and the
\* user is not idle, the tracked project is never none: it is the name of
\* the rule the resolver returned, or "Uncategorized" when the tab has no
\* url, a browser-internal url, or no matching rule.
C11_TrackedProjectNeverNone ==
    (done.op = "beginTracking" /\ ~trackingPaused /\ ~isUserIdle)
        => /\ activeProjectName # Null
           /\ activeProjectName \in Names
           /\ IF done.tab \in {"tA", "tB"}
              THEN activeProjectName = matchTabToProject(done.tab)
              ELSE activeProjectName = Uncategorized

\* beginTracking completes for a tab no rule matches, with nothing tracked
\* before: the sentinel is tracked.
C11_Witness ==
    /\ done.op = "beginTracking"
    /\ ~trackingPaused /\ ~isUserIdle
    /\ done.pre.project = Null
    /\ done.tab = "tNone"
    /\ activeProjectName = Uncategorized

\* C12. The day key is the date at the time of the flush: when an interval
\* that started on day D is flushed on a later day, the whole elapsed time
\* is added under the later day's key and nothing under D's.
C12_DayKeyIsFlushDate ==
    (/\ done.op \in {"flush", "beginTracking"}
     /\ done.pre.project # Null /\ done.pre.start # NoTime
     /\ now - done.pre.start > ThresholdMs
     /\ done.pre.startDay < today)
        => /\ Get(timeData, today, done.pre.project)
                = Get(done.pre.timeData, today, done.pre.project)
                     + (now - done.pre.start)
           /\ \A d \in Days \ {today}, n \in Keys :
                 Get(timeData, d, n) = Get(done.pre.timeData, d, n)

\* An interval of A that started on day 0 is flushed by the periodic timer
\* on day 1: day 1 gets the elapsed time, day 0 holds nothing.
C12_Witness ==
    /\ done.op = "flush"
    /\ done.pre.project = "A"
    /\ done.pre.startDay = 0 /\ today = 1
    /\ now - done.pre.start > ThresholdMs
    /\ Get(timeData, 1, "A") = now - done.pre.start
    /\ Get(timeData, 0, "A") = 0

\* C13. Ledger invariant: whenever no handler is in flight, the ledger value
\* of each day and name equals the sum of the amounts that flushes added
\* for that name on that day since the last reset or prune, however the
\* handlers that write the ledger interleave at their await points.
C13_LedgerIsSumOfFlushes ==
    InFlight = {} =>
        \A d \in Days, n \in Keys :
            Get(timeData, d, n) = Get(history.credited, d, n)

\* C14. Overlapping flushes are safe: no span of wall-clock time is added
\* to the ledger more than once, so the amount added for the open interval
\* never exceeds the wall-clock time since it was opened.
C14_OverlappingFlushesSafe ==
    (InFlight = {} /\ activeProjectName # Null)
        => Total(timeData, activeProjectName) - span.totalAtOpen
              <= now - span.openedAt

\* C15. The counter is incremented once per activation: after n
\* tab-activated events and no reset, once all handlers have completed, the
\* stored counter equals n, however the increments interleave.
C15_CounterCountsActivations ==
    (InFlight = {} /\ history.reset = "never")
        => tabSwitchCount = activations

\* C16. resetTimeData clears the ledger and the counter together: once the
\* command has completed and the handlers in flight have finished, the
\* ledger holds nothing but what was added after it was cleared and the
\* counter nothing but the increments made after it was cleared.
C16_ResetClearsBoth ==
    (InFlight = {} /\ history.reset = "done")
        => /\ tabSwitchCount <= history.counted
           /\ \A d \in Days, n \in Keys :
                 Get(timeData, d, n) <= Get(history.credited, d, n)

\* Rule i of the call's list has a pattern the matcher finds in text.
RuleMatches(i, text) ==
    \E k \in 1..Len(call.projects[i].patterns) :
        textMatchesPattern(text, call.projects[i].patterns[k])

\* Some rule of the call's list has a pattern the matcher finds in text.
SomeRuleMatches(text) == \E i \in 1..Len(call.projects) : RuleMatches(i, text)

C18_NoneWithoutMatch ==
    (call.fn = "matchTabToProject" /\ call.returned) =>
        /\ call.projects = <<>> => call.project = 0
        /\ (/\ ~SomeRuleMatches(extractPrimaryName(call.title))
            /\ ~SomeRuleMatches(call.title)
            /\ ~SomeRuleMatches(call.url)) => call.project = 0
        /\ call.project # 0 => call.projects[call.project].patterns # <<>>

\* A rule without patterns and a rule whose pattern matches nothing of the
\* tab: none is returned.
C18_Witness ==
    /\ call.fn = "matchTabToProject" /\ call.returned
    /\ call.title = <<"a">> \o Suffix("-", Docs)
    /\ call.url = <<"c">>
    /\ call.projects = <<[patterns |-> <<>>], [patterns |-> <<<<"b">>>>]>>
    /\ call.project = 0

\* The pattern has no "*".
Literal(pattern) == \A i \in 1..Len(pattern) : pattern[i] # "*"

\* C19 as stated. For a pattern p without "*" and a text t the matcher
\* returns true iff t equals p ignoring case (anchored at both ends); the
\* empty pattern matches only the empty text.
C19_LiteralMatchesWhole ==
    (call.fn = "textMatchesPattern" /\ call.returned /\ Literal(call.pattern))
        => (call.matches <=> LowerAll(call.text) = LowerAll(call.pattern))

\* C19 as amended. For a pattern p without "*" and a text t the matcher
\* returns true iff p occurs in t as a run of consecutive characters,
\* ignoring case; the empty pattern matches every text.
C19_LiteralMatchesSubstring ==
    (call.fn = "textMatchesPattern" /\ call.returned /\ Literal(call.pattern))
        => (call.matches <=>
              \E from \in 1..(Len(call.text) + 1) :
                 /\ from + Len(call.pattern) - 1 <= Len(call.text)
                 /\ LowerAll(SubSeq(call.text, from,
                                    from + Len(call.pattern) - 1))
                       = LowerAll(call.pattern))

\* The pattern "a" is found inside the text "bA".
C19_Witness ==
    /\ call.fn = "textMatchesPattern" /\ call.returned
    /\ call.pattern = <<"a">>
    /\ call.text = <<"b", "A">>
    /\ call.matches

\* The listed suffixes the text ends with (one at most).
Ending(t) == {k \in DOMAIN suffixes : EndsWith(t, suffixes[k])}

\* t without the listed suffix it ends with.
WithoutEnding(t) ==
    LET k == CHOOSE x \in Ending(t) : TRUE
    IN DropLast(t, Len(suffixes[k]))

\* C20 as stated. extractPrimaryName strips at most one suffix per call:
\* of a title ending in a listed suffix, and of one ending in two in a row,
\* only the last is removed, and the result is the title minus that one
\* suffix, trimmed.
C20_OneSuffixStripped ==
    (/\ call.fn = "extractPrimaryName" /\ call.returned
     /\ Ending(call.title) # {})
        => call.primaryName = Trim(WithoutEnding(call.title))

\* C20 as amended. extractPrimaryName tries every listed suffix once, in
\* the order of the list, on what is left of the title: of a title ending
\* in two listed suffixes in a row the inner one is removed too when it
\* comes later in the list than the outer one, and only the outer one
\* otherwise; the result is trimmed.
C20_SuffixesStrippedInListOrder ==
    (/\ call.fn = "extractPrimaryName" /\ call.returned
     /\ Ending(call.title) # {})
        => LET outer == CHOOSE x \in Ending(call.title) : TRUE
               rest == WithoutEnding(call.title)
           IN IF \E inner \in Ending(rest) : inner > outer
              THEN Ending(WithoutEnding(rest)) = {}
                      => call.primaryName = Trim(WithoutEnding(rest))
              ELSE call.primaryName = Trim(rest)

\* "X - Google Docs - Google Drive" gives "X": both suffixes are removed.
C20_Witness ==
    /\ call.fn = "extractPrimaryName" /\ call.returned
    /\ call.title = <<"X">> \o Suffix("-", Docs) \o Suffix("-", Drive)
    /\ call.primaryName = <<"X">>

\* A tab that organizeTab resolves to a project.
Matched(t) ==
    /\ Open(t)
    /\ ~OrganizeTabReturnsAtOnce(t)
    /\ matchTabToProject(t) # Null

\* Two assignments of tabs to groups put the same tabs together.
SameGroups(a, b) ==
    \A t1, t2 \in HostTabs :
        (a[t1] # NoGroup /\ a[t1] = a[t2]) <=> (b[t1] # NoGroup /\ b[t1] = b[t2])

\* C21. organizeAll is idempotent: when a second organizeAllTabs pass
\* follows a first one with the tabs, the groups' membership and the rules
\* untouched in between, the same tabs are grouped together after it as
\* after the first, and all the tabs of one (project name, window) pair
\* are in one group.
C21_OrganizeAllIdempotent ==
    (/\ done.op = "organizeAllTabs"
     /\ history.before # <<>>
     /\ history.organized # <<>>)
        => /\ SameGroups(history.before, history.organized)
           /\ \A t1, t2 \in HostTabs :
                 (/\ Matched(t1) /\ Matched(t2)
                  /\ matchTabToProject(t1) = matchTabToProject(t2)
                  /\ WindowOf(t1) = WindowOf(t2))
                     => chrome.groupId[t1] = chrome.groupId[t2]

\* A second pass ends after groups made by the user and by the first pass:
\* the two pages of rule A in one window are together and every group of
\* the first pass has been replaced.
C21_Witness ==
    /\ done.op = "organizeAllTabs"
    /\ history.before # <<>>
    /\ history.organized # <<>>
    /\ history.before["tA"] = history.before["tA2"]
    /\ history.before["tA"] # NoGroup
    /\ chrome.groupId["tA"] = chrome.groupId["tA2"]
    /\ chrome.groupId["tA"] # history.before["tA"]
    /\ chrome.groupId["tNone"] # NoGroup

\* C22. After an organizeAllTabs pass that ran alone (no tab closed and no
\* group removed meanwhile, no host call failed), two tabs that matched a
\* project are in the same group exactly if they resolve to the same
\* project name and are in the same window; in particular each is in a
\* group.
C22_OneGroupPerProjectAndWindow ==
    (done.op = "organizeAllTabs" /\ ~history.disturbed)
        => \A t1, t2 \in HostTabs :
              (Matched(t1) /\ Matched(t2))
                 => ((/\ chrome.groupId[t1] # NoGroup
                      /\ chrome.groupId[t1] = chrome.groupId[t2])
                        <=> (/\ matchTabToProject(t1) = matchTabToProject(t2)
                             /\ WindowOf(t1) = WindowOf(t2)))

\* A pass ends with the pages of rule A of the first window in one group,
\* the page of rule A of the other window in another, and the page of rule
\* B in a third.
C22_Witness ==
    /\ done.op = "organizeAllTabs"
    /\ ~history.disturbed
    /\ chrome.groupId["tA"] # NoGroup
    /\ chrome.groupId["tA"] = chrome.groupId["tA2"]
    /\ chrome.groupId["tA3"] \notin {NoGroup, chrome.groupId["tA"]}
    /\ chrome.groupId["tB"] \notin
          {NoGroup, chrome.groupId["tA"], chrome.groupId["tA3"]}

\* C23. When clearAllGroups completes, no tab is in a group and the session
\* group map is empty; and a clearAllGroups that starts with no tab in a
\* group and an empty map, the user changing nothing meanwhile, leaves the
\* host and the map as they were.
C23_ClearAllClearsAndIsIdempotent ==
    done.op = "clearAllGroups"
        => /\ \A t \in HostTabs : chrome.groupId[t] = NoGroup
           /\ GroupIds(chrome.groupId) = {}
           /\ groupIdMap = <<>>
           /\ (/\ ~history.disturbed
               /\ GroupIds(done.pre.chrome.groupId) = {}
               /\ done.pre.groupIdMap = <<>>)
                 => /\ chrome = done.pre.chrome
                    /\ groupIdMap = done.pre.groupIdMap

\* A clearAllGroups completes that began with nothing to clear, after an
\* organizeAllTabs pass had made groups and an earlier clearAllGroups had
\* removed them.
C23_Witness ==
    /\ done.op = "clearAllGroups"
    /\ ~history.disturbed
    /\ history.commands = 3
    /\ GroupIds(done.pre.chrome.groupId) = {}
    /\ done.pre.chrome.lastGroupId > 1
    /\ done.pre.groupIdMap = <<>>
    /\ chrome = done.pre.chrome

\* A step of one of the two grouping commands.
GroupingCommandStep ==
    \E i \in TaskIds :
        \/ tasks[i].kind \in {"organizeAllTabs", "clearAllGroups"}
        \/ tasks'[i].kind \in {"organizeAllTabs", "clearAllGroups"}

\* C24. Grouping runs only on explicit request: a step of any handler other
\* than the organizeAllTabs and clearAllGroups commands (tab activated, tab
\* url changed, window focus changed, idle state changed, alarm, install,
\* start-up, pause toggle, reset) leaves the session group map, every tab's
\* group and every group's title as they were.
C24_GroupingOnlyOnRequest ==
    [][~GroupingCommandStep => UNCHANGED <<groupIdMap, chrome>>]_vars

\* A tab-activated handler completes and tracks a project while the groups
\* of an earlier organizeAllTabs pass and the session map are in place.
C24_Witness ==
    /\ done.op = "beginTracking"
    /\ done.kind = "onActivated"
    /\ activeProjectName = "A"
    /\ groupIdMap # <<>>
    /\ chrome.groupId["tA"] # NoGroup
    /\ chrome.groupId["tA"] = chrome.groupId["tA2"]

\* The rule list in the store before the seeding that has just completed,
\* as ensureProductivityProject reads it.
SeededFrom == StoredProjects(done.pre.syncStore, <<>>)

\* The rule with its pattern list replaced by the built-in one.
Reseeded(p) == [p EXCEPT !.patterns = DEFAULT_PRODUCTIVITY_PROJECT.patterns]

\* C25 as stated, the reserved default identity being the rule id
\* "default-productivity": seeding replaces the pattern list of the rule with
\* that id and changes nothing else, or appends the default rule when no
\* rule has that id.
C25_SeedingTouchesOnlyDefaultId ==
    done.op = "ensureProductivityProject"
        => IF \E k \in DOMAIN SeededFrom :
                 SeededFrom[k].id = DEFAULT_PRODUCTIVITY_PROJECT.id
           THEN /\ Len(syncStore.projects) = Len(SeededFrom)
                /\ \A k \in DOMAIN SeededFrom :
                      syncStore.projects[k] =
                         IF SeededFrom[k].id = DEFAULT_PRODUCTIVITY_PROJECT.id
                         THEN Reseeded(SeededFrom[k])
                         ELSE SeededFrom[k]
           ELSE syncStore.projects =
                   Append(SeededFrom, DEFAULT_PRODUCTIVITY_PROJECT)

\* C25. Seeding changes no rule but the first one in the list that has the
\* default id or the default name "Productivity": if there is one, only its
\* pattern list is replaced (id, name and colour kept) and every other rule
\* and the order are unchanged; if there is none, exactly the default rule is
\* appended to the stored rules.  When no list was ever stored the stored
\* list becomes the default rule alone, without the rules getProjects gave
\* for the unset list.
C25_SeedingTouchesOnlyFirstDefault ==
    done.op = "ensureProductivityProject"
        => /\ IF \E k \in DOMAIN SeededFrom : IsProductivity(SeededFrom[k])
              THEN /\ Len(syncStore.projects) = Len(SeededFrom)
                   /\ \A k \in DOMAIN SeededFrom :
                         syncStore.projects[k] =
                            IF /\ IsProductivity(SeededFrom[k])
                               /\ \A j \in 1..(k - 1) :
                                     ~IsProductivity(SeededFrom[j])
                            THEN Reseeded(SeededFrom[k])
                            ELSE SeededFrom[k]
              ELSE syncStore.projects =
                      Append(SeededFrom, DEFAULT_PRODUCTIVITY_PROJECT)
           /\ done.pre.syncStore = <<>>
                 => syncStore.projects = <<DEFAULT_PRODUCTIVITY_PROJECT>>

\* Seeding completes on a list whose second rule has the default name and a
\* colour and patterns of the user's: the first rule is untouched, the
\* second keeps id, name and colour and gets the built-in patterns.
C25_Witness ==
    /\ done.op = "ensureProductivityProject"
    /\ Len(SeededFrom) = 2
    /\ ~IsProductivity(SeededFrom[1])
    /\ SeededFrom[2].name = DEFAULT_PRODUCTIVITY_PROJECT.name
    /\ SeededFrom[2].color = "red"
    /\ SeededFrom[2].patterns = "edited"
    /\ syncStore.projects[1] = SeededFrom[1]
    /\ syncStore.projects[2] = Reseeded(SeededFrom[2])

\* C26. Pruning with retention horizon k removes exactly the day keys
\* strictly older than today's key minus k days: the entry dated today - k
\* is kept with its values, the entry one day older is removed, and newer
\* entries are untouched.
C26_PruneKeepsFromCutoff ==
    done.op = "prune"
        => timeData =
              [d \in {k \in DOMAIN done.pre.timeData :
                         k >= today - done.keepDays} |->
                  done.pre.timeData[d]]

\* beginTracking got past its guard and the host's lookup of its tab failed.
LookupFailed ==
    /\ done.op = "beginTracking"
    /\ ~done.early
    /\ TabsGetThrows(done.tab)

\* C27, as stated. An external-call failure in beginTracking leaves the
\* tracking state unchanged: if the host's lookup of the tab fails, the
\* tracked project and the start of its interval are those before the call.
C27_LookupFailureKeepsState ==
    LookupFailed
        => /\ activeProjectName = done.pre.project
           /\ activeTabStartTime = done.pre.start

\* C27, amended. When the host's lookup of the tab fails in beginTracking,
\* the interval open before the call has been flushed as on any switch
\* (added to its project under today's key if over one second), the tracked
\* project becomes "Uncategorized" and the interval restarts at now.
C27_LookupFailureTracksUncategorized ==
    LookupFailed
        => /\ activeProjectName = Uncategorized
           /\ activeTabStartTime = now
           /\ IF done.pre.project # Null /\ done.pre.start # NoTime
                 /\ now - done.pre.start > ThresholdMs
              THEN LedgerIs(done.pre.timeData, done.pre.project,
                            now - done.pre.start)
              ELSE timeData = done.pre.timeData

\* The user switches from a tab of A, open for over a second, to a tab that
\* is closed before the lookup: A's time is booked and Uncategorized is
\* tracked from now.
C27_Witness ==
    /\ LookupFailed
    /\ done.pre.project = "A"
    /\ now - done.pre.start > ThresholdMs
    /\ activeProjectName = Uncategorized
    /\ activeTabStartTime = now
    /\ timeData # done.pre.timeData

\* C28. organizeAll always completes: when a host call for one tab fails
\* during the pass (the tab was closed after enumeration), the failure is
\* confined to that tab: the pass does not end there, with tabs of the
\* enumeration not visited and no response sent.
C28_OrganizeAllAlwaysCompletes ==
    ~(/\ done.op = "rejected"
      /\ done.kind = "organizeAllTabs")

\* The map is m but for the entry of key.
SameButFor(m, key) ==
    /\ (DOMAIN groupIdMap) \ {key} = (DOMAIN m) \ {key}
    /\ \A k \in (DOMAIN m) \ {key} : groupIdMap[k] = m[k]

\* C30. Stale group invalidation: when the session map holds a group id for
\* (project name, window) and the host lookup of that group fails,
\* organizeTab removes that one entry, then creates a new group for the
\* tab and records the new id under the same key, every other map entry
\* staying as it was; the tab is never put into the group whose lookup
\* failed.
C30_StaleGroupInvalidated ==
    /\ \A i \in InFlight :
          (tasks[i].pc = "organize_group_new" /\ tasks[i].stale # NoGroup)
             => /\ tasks[i].map[KeyOf(tasks[i])] = tasks[i].stale
                /\ KeyOf(tasks[i]) \notin DOMAIN groupIdMap
                /\ SameButFor(tasks[i].map, KeyOf(tasks[i]))
                /\ chrome.groupId[tasks[i].tab] # tasks[i].stale
    /\ (done.op \in {"organizeTab", "organizeAllTabs"} /\ done.stale # NoGroup)
          => LET key == GroupKey(matchTabToProject(done.tab), WindowOf(done.tab))
             IN /\ done.map[key] = done.stale
                /\ MapGet(groupIdMap, key) = done.groupId
                /\ done.groupId \notin {NoGroup, done.stale}
                /\ done.groupId \notin GroupIds(done.pre.chrome.groupId)
                /\ chrome.groupId[done.tab] = done.groupId
                /\ SameButFor(done.map, key)

\* The first page of rule A and the page of rule B have been grouped, the
\* user removes A's group, and organizeTab returns for the second page of
\* rule A: it is in a new group recorded under A's key, and B's entry is in
\* the map as before.
C30_Witness ==
    /\ done.op = "organizeTab"
    /\ done.tab = "tA2"
    /\ done.stale # NoGroup
    /\ chrome.groupId["tA2"] = done.groupId
    /\ chrome.groupId["tA"] = NoGroup
    /\ groupIdMap[GroupKey("A", "w1")] = done.groupId
    /\ GroupKey("B", "w1") \in DOMAIN done.map
    /\ groupIdMap[GroupKey("B", "w1")] = done.map[GroupKey("B", "w1")]

\* The lowest-index rule of the call's list with a pattern the matcher
\* finds in text, 0 if there is none.
LowestRuleMatching(text) ==
    IF SomeRuleMatches(text)
    THEN CHOOSE i \in 1..Len(call.projects) :
            /\ RuleMatches(i, text)
            /\ \A j \in 1..(i - 1) : ~RuleMatches(j, text)
    ELSE 0

\* C29. Within one resolver pass the rule order decides: the rule returned
\* is the lowest-index rule of the list with at least one pattern matching
\* the candidate string of the pass that decides (the primary name if it is
\* not empty and some rule matches it, else the title if it is not empty,
\* differs from the primary name and some rule matches it, else the url),
\* whatever the position of the matching pattern inside its rule.
C29_RuleOrderDecidesWithinPass ==
    (call.fn = "matchTabToProject" /\ call.returned) =>
        LET primaryName == extractPrimaryName(call.title)
        IN call.project =
              IF primaryName # <<>> /\ SomeRuleMatches(primaryName)
              THEN LowestRuleMatching(primaryName)
              ELSE IF /\ call.title # <<>>
                      /\ call.title # primaryName
                      /\ SomeRuleMatches(call.title)
              THEN LowestRuleMatching(call.title)
              ELSE LowestRuleMatching(call.url)

\* The first rule matches the url with its second pattern, the second rule
\* with its first: the first rule is returned.
C29_Witness ==
    /\ call.fn = "matchTabToProject" /\ call.returned
    /\ call.title = <<>>
    /\ call.url = <<"a">>
    /\ call.projects = <<[patterns |-> <<<<"b">>, <<"a">>>>],
                         [patterns |-> <<<<"a">>, <<"b">>>>]>>
    /\ call.project = 1

\* The tab without url, the chrome:// tab and the page no rule matches.
LeftAloneTabs == {"tNoUrl", "tInternal", "tNone"}

\* C31. organizeAll leaves untouched every tab that has no url, has a
\* browser-internal url, or resolves to no project: no host call of the
\* pass (tabs.get, tabGroups.get, tabs.group, tabGroups.update) is issued
\* for such a tab, and when the pass has ended, the user changing nothing
\* meanwhile, the tab's group is the one it was in when the command came.
C31_UnmatchedTabsLeftAlone ==
    /\ \A i \in InFlight :
          tasks[i].pc \in {"organize_tabs_get", "organize_tabGroups_get",
                           "organize_group_join", "organize_group_new",
                           "organize_tabGroups_update"}
             => tasks[i].tab \notin LeftAloneTabs
    /\ (done.op = "organizeAllTabs" /\ ~history.disturbed)
          => \A t \in LeftAloneTabs :
                chrome.groupId[t] = done.pre.chrome.groupId[t]

\* A pass ends where the user had put a page of rule A and a page no rule
\* matches into a group: the page of rule A has moved to a new group, the
\* other page is in the user's group, and the chrome:// tab and the tab
\* without url are in no group.
C31_Witness ==
    /\ done.op = "organizeAllTabs"
    /\ ~history.disturbed
    /\ done.pre.chrome.groupId["tNone"] # NoGroup
    /\ chrome.groupId["tNone"] = done.pre.chrome.groupId["tNone"]
    /\ chrome.groupId["tA"] \notin {NoGroup, chrome.groupId["tNone"]}
    /\ chrome.groupId["tInternal"] = NoGroup
    /\ chrome.groupId["tNoUrl"] = NoGroup

\* C32. If the ledger store fails during a flush (addTime throws), the open
\* interval is left as it was, same project and same start time, and the
\* ledger too; so the elapsed time is not lost: the next flush that goes
\* through adds the whole time since that start to that project.
C32_FailedFlushKeepsInterval ==
    /\ done.op = "rejected"
          => /\ activeProjectName = done.pre.project
             /\ activeTabStartTime = done.pre.start
             /\ timeData = done.pre.timeData
             /\ activeProjectName = history.failed.project
             /\ activeTabStartTime = history.failed.start
    /\ (Flushed /\ history.failed.project # Null)
          => LedgerIs(done.pre.timeData, history.failed.project,
                      now - history.failed.start)

\* The store failed under the flush of the timer with A open for a second
\* and a half; half a second later the timer's flush goes through and adds
\* two seconds to A.
C32_Witness ==
    /\ done.op = "flush"
    /\ done.kind = "alarm"
    /\ history.failed.project = "A"
    /\ now - history.failed.start = 4 * TickMs
    /\ Get(timeData, today, "A") = Get(done.pre.timeData, today, "A") + 4 * TickMs

\* C33. Idle implies not tracking: in every state where the last idle
\* signal was idle or locked and no handler is in flight, no interval is
\* open (the project is none), for every interleaving of a beginTracking
\* call with the idle-start handler at their await points.
C33_IdleImpliesNotTracking ==
    (isUserIdle /\ InFlight = {}) => activeProjectName = Null

\* C34. Last activation wins: after tab-activated events for tab T1 and
\* then tab T2 (not paused, not idle), once both handlers have completed
\* the tracked project is the project of T2, for every interleaving of the
\* two beginTracking calls at their await points.
C34_LastActivationWins ==
    (/\ InFlight = {}
     /\ Len(history.activated) = 2
     /\ ~trackingPaused /\ ~isUserIdle)
        => activeProjectName = ResolvedName(history.activated[2])

=============================================================================
